---- MODULE Spec2Model ----
(***************************************************************************)
(* A model of the VPC datastore layer of nexus                             *)
(* (nexus/db-queries/src/db/datastore/vpc.rs): the VNI allocator, the      *)
(* VPC / subnet / firewall-rule lifecycle and the fabric resolver.         *)
(*                                                                         *)
(* The database is the only shared state.  Every SQL statement is one      *)
(* atomic step; a datastore method that issues several statements is a     *)
(* sequence of steps, and other calls may run between them.                *)
(***************************************************************************)
EXTENDS Integers, Sequences, FiniteSets, Bags, TLC

(***************************************************************************)
(* Bounds.  The VNI space of the program is [0, 2^24) with the first 1024  *)
(* values reserved and windows of 2048 values; the model scales it down.   *)
(***************************************************************************)
MIN_GUEST_VNI == 2
MAX_VNI == 5
MAX_VNI_SEARCH_RANGE_SIZE == 1

STEP_SIZE == MAX_VNI_SEARCH_RANGE_SIZE

Projects == {"p1", "p2"}
\* The built-in services project and its VPC, whose VNI lies in the range
\* reserved below MIN_GUEST_VNI.
SERVICES_PROJECT_ID == "services"
SERVICES_VPC_ID == "sv"
SERVICES_VPC_NAME == "oxide-services"
SERVICES_VNI == 0
ProjectIds == Projects \cup {SERVICES_PROJECT_ID}
Names == {"a", "b"}
\* VPC rows that exist before the modelled calls start (created by earlier
\* calls), and the calls of each kind; a create call brings its own fresh id.
ExistingVpcIds == <<"e1", "e2", "e3", "e4">>
CreateVpcCalls == {"c1", "c2"}
DeleteVpcCalls == {"d1"}
VpcIds ==
    {ExistingVpcIds[i] : i \in DOMAIN ExistingVpcIds} \cup CreateVpcCalls
        \cup {SERVICES_VPC_ID}

\* Address bits of the modelled IPv4 and IPv6 spaces: a block is a prefix of
\* 0..bits bits, as a CIDR block is.
V4Bits == 1
V6Bits == 1
CreateSubnetCalls == <<"s1", "s2">>
DeleteSubnetCalls == {"ds1"}
ExistingSubnetIds == {"x1"}
\* The ids of the built-in subnets of the services VPC that are modelled:
\* an address space of V4Bits bits has room for two disjoint blocks.
BuiltinSubnetIds == <<"dns", "nexus">>
CreateSubnetIds == {CreateSubnetCalls[i] : i \in DOMAIN CreateSubnetCalls}
SubnetIds ==
    ExistingSubnetIds \cup CreateSubnetIds \cup
    {BuiltinSubnetIds[i] : i \in DOMAIN BuiltinSubnetIds}

\* Firewall rules: a replacement carries at most MaxRules rules; a
\* transaction is rerun at most MaxFwRetries times.
MaxRules == 2
MaxFwRetries == 1
RuleNames == <<"a", "b">>
UpdateFwCalls == {"u1", "u2"}
\* The replacement that load_builtin_vpc_fw_rules makes, of at most
\* MaxLoadRules rules.
LoadFwCall == "lb"
MaxLoadRules == 4
\* The names of the built-in rules of the services VPC.
DNS_VPC_FW_RULE == "dns-inbound"
NEXUS_VPC_FW_RULE == "nexus-inbound"
BuiltinRuleNames == {DNS_VPC_FW_RULE, NEXUS_VPC_FW_RULE}
FwCalls == UpdateFwCalls \cup {LoadFwCall}
DeleteAllFwCalls == {"da1", "da2"}
RuleIds ==
    {<<c, i>> : c \in UpdateFwCalls, i \in 1..MaxRules} \cup
    {<<LoadFwCall, i>> : i \in 1..MaxLoadRules} \cup
    {<<"x", i>> : i \in DOMAIN RuleNames}

\* The resolver's tables; at most MaxTargets blueprints are made the target.
MaxTargets == 2
SledIds == {"sA", "sB"}
InstanceIds == {"i1"}
VmmIds == {"m1", "m2"}
InicIds == {"n1", "n2"}
SnicIds == {"sn1", "sn2"}
ZoneIds == {"z1", "z2"}
BlueprintIds == {"b1", "b2"}

LegalVnis == MIN_GUEST_VNI..MAX_VNI
\* The seeds the create calls start from: the first legal VNI (windows
\* aligned with the space) and the last one (the walk wraps at once).
Seeds == {MIN_GUEST_VNI, MAX_VNI}

VARIABLES
    project,       \* project table: id -> "live" | "deleted"
    vpc,           \* vpc table: id -> row
    createVpc,     \* project_create_vpc calls in flight
    deleteVpc,     \* project_delete_vpc calls in flight
    subnet,        \* vpc_subnet table: id -> row
    createSubnet,  \* vpc_create_subnet calls in flight
    deleteSubnet,  \* vpc_delete_subnet calls in flight
    fwrule,        \* vpc_firewall_rule table: id -> row
    updateFw,      \* vpc_update_firewall_rules calls in flight
    deleteAllFw,   \* vpc_delete_all_firewall_rules calls
    sled,             \* sled table: id -> row
    instance,         \* instance table: id -> row
    vmm,              \* vmm table: id -> row
    inic,             \* instance_network_interface: id -> row
    snic,             \* service_network_interface: id -> row
    bp_omicron_zone,  \* set of rows [blueprint_id, sled_id, id, disposition]
    bp_target,        \* set of rows [version, blueprint_id, enabled]
    resolved,         \* the last vpc_resolve_to_sleds call and its result
    planning_input,   \* PlanningInputBuilder / PlanningInput: its sleds map
    planned,          \* the last call on the planning input and its result
    router,           \* vpc_router table: id -> row
    route,            \* router_route table: id -> row
    called,           \* the last one-statement datastore call and its result
    httpRouter,       \* the HttpRouter: its nodes and their method handlers
    lookup,           \* the last lookup_route call and its result
    load              \* the load_builtin_vpcs call in flight

subnetVars == <<subnet, createSubnet, deleteSubnet>>
fwVars == <<fwrule, updateFw, deleteAllFw>>
resolveVars ==
    <<sled, instance, vmm, inic, snic, bp_omicron_zone, bp_target, resolved>>
planningVars == <<planning_input, planned>>
routerVars == <<router, route, called>>
httpVars == <<httpRouter, lookup>>
vars ==
    <<project, vpc, createVpc, deleteVpc, subnetVars, fwVars, resolveVars,
      planningVars, routerVars, httpVars, load>>

(***************************************************************************)
(* Rows                                                                    *)
(***************************************************************************)
NoVpc == [st |-> "none", project_id |-> "p1", name |-> "a", vni |-> 0,
          subnet_gen |-> 0, firewall_gen |-> 0]

VpcRow(p, n, v) == [st |-> "live", project_id |-> p, name |-> n, vni |-> v,
                    subnet_gen |-> 0, firewall_gen |-> 0]

LiveVpcs == {i \in VpcIds : vpc[i].st = "live"}

Min(S) == CHOOSE x \in S : \A y \in S : x <= y

(***************************************************************************)
(* VniSearchIter: the window starts tried for a seed, in order.  Each      *)
(* window covers STEP_SIZE + 1 values; the walk wraps from MAX_VNI to      *)
(* MIN_GUEST_VNI and ends when it comes back to the seed.                  *)
(***************************************************************************)
RECURSIVE VniSearchFrom(_, _, _)
VniSearchFrom(start, current, has_wrapped) ==
    IF has_wrapped /\ current >= start THEN << >>
    ELSE LET nxt == current + STEP_SIZE + 1
         IN <<current>> \o
            (IF nxt > MAX_VNI /\ ~has_wrapped
               THEN VniSearchFrom(start, MIN_GUEST_VNI, TRUE)
               ELSE VniSearchFrom(start, nxt, has_wrapped))

VniSearchIter(start) == VniSearchFrom(start, start, FALSE)

(***************************************************************************)
(* InsertVpcQuery: the vni column of the inserted row is the least value   *)
(* of the window that no live VPC holds, NULL when there is none.          *)
(***************************************************************************)
VniWindow(start) == {v \in start..(start + STEP_SIZE) : v <= MAX_VNI}

FreeVnis(start) ==
    {v \in VniWindow(start) : ~\E i \in LiveVpcs : vpc[i].vni = v}

NextVni(start) ==
    IF FreeVnis(start) = {} THEN [null |-> TRUE, vni |-> 0]
    ELSE [null |-> FALSE, vni |-> Min(FreeVnis(start))]

\* The unique indexes of the vpc table: the primary key, (project_id, name)
\* among live rows, vni among live rows.
VpcUniqueViolation(id, p, n, v) ==
    \/ vpc[id].st # "none"
    \/ \E i \in LiveVpcs : vpc[i].project_id = p /\ vpc[i].name = n
    \/ \E i \in LiveVpcs : vpc[i].vni = v

(***************************************************************************)
(* project_create_vpc_raw: authorize, then one collection insert under     *)
(* the project.  The result is Some (with the vni), None (the vni came     *)
(* out NULL) or Err.                                                       *)
(***************************************************************************)
RawErr(e) == [kind |-> "Err", err |-> e, vni |-> 0]

\* Variants of project_create_vpc_raw with a defect each: the row is inserted
\* with the seed as its vni (no search, no index); a NULL vni is reported as
\* an error; a unique violation is reported as None.
project_create_vpc_raw_NoSearch(authorized, p, id, n, start) ==
    IF ~authorized THEN RawErr("Forbidden")
    ELSE IF project[p] # "live" THEN RawErr("ObjectNotFound(Project)")
    ELSE [kind |-> "Some", err |-> "", vni |-> start]

project_create_vpc_raw_NullIsErr(authorized, p, id, n, start) ==
    IF ~authorized THEN RawErr("Forbidden")
    ELSE IF project[p] # "live" THEN RawErr("ObjectNotFound(Project)")
    ELSE IF NextVni(start).null THEN RawErr("InternalError")
    ELSE IF VpcUniqueViolation(id, p, n, NextVni(start).vni)
           THEN RawErr("ObjectAlreadyExists")
    ELSE [kind |-> "Some", err |-> "", vni |-> NextVni(start).vni]

project_create_vpc_raw_ConflictIsNone(authorized, p, id, n, start) ==
    IF ~authorized THEN RawErr("Forbidden")
    ELSE IF project[p] # "live" THEN RawErr("ObjectNotFound(Project)")
    ELSE IF NextVni(start).null THEN [kind |-> "None", err |-> "", vni |-> 0]
    ELSE IF VpcUniqueViolation(id, p, n, NextVni(start).vni)
           THEN [kind |-> "None", err |-> "", vni |-> 0]
    ELSE [kind |-> "Some", err |-> "", vni |-> NextVni(start).vni]

project_create_vpc_raw(authorized, p, id, n, start) ==
    IF ~authorized THEN RawErr("Forbidden")
    ELSE IF project[p] # "live" THEN RawErr("ObjectNotFound(Project)")
    ELSE IF NextVni(start).null THEN [kind |-> "None", err |-> "", vni |-> 0]
    ELSE IF VpcUniqueViolation(id, p, n, NextVni(start).vni)
           THEN RawErr("ObjectAlreadyExists")
    ELSE [kind |-> "Some", err |-> "", vni |-> NextVni(start).vni]

(***************************************************************************)
(* project_create_vpc: one raw insert per window until one returns a row   *)
(* or an error; InsufficientCapacity when the windows run out.             *)
(***************************************************************************)
\* attempts and nones count the raw inserts made and those that returned None.
\* History: beat holds the calls whose next insert would have taken the VNI
\* this call got, at the moment it got it.
IdleCreate == [pc |-> "idle", project_id |-> "p1", name |-> "a", seed |-> 0,
               authorized |-> TRUE, vnis |-> << >>, attempts |-> 0,
               nones |-> 0, res |-> "", vni |-> 0, beat |-> {}]

\* The VNI the next raw insert of a searching call computes.
Candidate(c) == NextVni(Head(createVpc[c].vnis))

Rivals(c) ==
    {k \in CreateVpcCalls \ {c} :
        /\ createVpc[k].pc = "search"
        /\ createVpc[k].authorized
        /\ project[createVpc[k].project_id] = "live"
        /\ ~Candidate(k).null
        /\ Candidate(k) = Candidate(c)}

CreateVpcStart(c, p, n, seed, authorized) ==
    /\ createVpc[c].pc = "idle"
    /\ createVpc' = [createVpc EXCEPT ![c] =
           [pc |-> "search", project_id |-> p, name |-> n, seed |-> seed,
            authorized |-> authorized, vnis |-> VniSearchIter(seed),
            attempts |-> 0, nones |-> 0, res |-> "", vni |-> 0,
            beat |-> {}]]
    /\ UNCHANGED <<planningVars, routerVars, httpVars, load>>
    /\ UNCHANGED <<project, vpc, deleteVpc, subnetVars, fwVars, resolveVars>>

\* Ok(None) => continue: the loop takes the iterator's next window.  The
\* variant tries the same window again.
ContinueSearch_SameWindow(call) ==
    [call EXCEPT !.nones = call.nones + 1, !.attempts = call.attempts + 1]

ContinueSearch(call) ==
    [call EXCEPT !.vnis = Tail(call.vnis), !.nones = call.nones + 1,
                 !.attempts = call.attempts + 1]

CreateVpcAttempt(c) ==
    LET call == createVpc[c]
        start == Head(call.vnis)
        r == project_create_vpc_raw(call.authorized, call.project_id, c,
                                    call.name, start)
    IN /\ call.pc = "search"
       /\ IF r.kind = "Some"
            THEN /\ vpc' = [vpc EXCEPT ![c] =
                        VpcRow(call.project_id, call.name, r.vni)]
                 /\ createVpc' = [createVpc EXCEPT ![c] =
                        [call EXCEPT !.pc = "done", !.res = "Ok",
                                     !.vni = r.vni,
                                     !.attempts = call.attempts + 1,
                                     !.beat = Rivals(c)]]
          ELSE IF r.kind = "Err"
            THEN /\ vpc' = vpc
                 /\ createVpc' = [createVpc EXCEPT ![c] =
                        [call EXCEPT !.pc = "done", !.res = r.err,
                                     !.attempts = call.attempts + 1]]
          ELSE IF Tail(call.vnis) = << >>
            THEN /\ vpc' = vpc
                 /\ createVpc' = [createVpc EXCEPT ![c] =
                        [call EXCEPT !.pc = "done",
                                     !.res = "InsufficientCapacity",
                                     !.vnis = << >>,
                                     !.nones = call.nones + 1,
                                     !.attempts = call.attempts + 1]]
          ELSE /\ vpc' = vpc
               /\ createVpc' = [createVpc EXCEPT ![c] = ContinueSearch(call)]
       /\ UNCHANGED <<planningVars, routerVars, httpVars, load>>
       /\ UNCHANGED <<project, deleteVpc, subnetVars, fwVars, resolveVars>>

(***************************************************************************)
(* load_builtin_vpcs: the services project is looked up and the services   *)
(* VPC is inserted with InsertVpcQuery::new_system for SERVICES_VNI; an    *)
(* ObjectAlreadyExists is taken as success.  The method returns nothing    *)
(* the model keeps; the statements that follow the VPC's insert write the  *)
(* router and route tables and the rules and subnets of the services VPC,  *)
(* and leave the vni column alone.                                         *)
(***************************************************************************)
\* The vni given to new_system.  The variant draws from the guest range.
new_system_vni_Guest == MIN_GUEST_VNI

new_system_vni == SERVICES_VNI

LoadBuiltinVpcs(authorized) ==
    LET r == project_create_vpc_raw(authorized, SERVICES_PROJECT_ID,
                                    SERVICES_VPC_ID, SERVICES_VPC_NAME,
                                    new_system_vni)
    IN /\ authorized
       /\ project[SERVICES_PROJECT_ID] = "live"
       /\ vpc' = IF r.kind = "Some"
                   THEN [vpc EXCEPT ![SERVICES_VPC_ID] =
                           VpcRow(SERVICES_PROJECT_ID, SERVICES_VPC_NAME,
                                  r.vni)]
                   ELSE vpc
       /\ UNCHANGED <<planningVars, routerVars, httpVars, load>>
       /\ UNCHANGED <<project, createVpc, deleteVpc, subnetVars, fwVars,
                      resolveVars>>

(***************************************************************************)
(* VPC subnets.  A block is [addr, prefix]: the addresses addr ..           *)
(* addr + 2^(bits - prefix) - 1.                                           *)
(***************************************************************************)
RECURSIVE Pow2(_)
Pow2(n) == IF n = 0 THEN 1 ELSE 2 * Pow2(n - 1)

Blocks(bits) ==
    {[addr |-> k * Pow2(bits - l), prefix |-> l] :
        l \in 0..bits, k \in 0..(Pow2(bits) - 1)} \cap
    {[addr |-> a, prefix |-> l] : a \in 0..(Pow2(bits) - 1), l \in 0..bits}

First(b) == b.addr
Last(b, bits) == b.addr + Pow2(bits - b.prefix) - 1

NoSubnet == [st |-> "none", vpc_id |-> "e1", name |-> "a",
             ipv4_block |-> [addr |-> 0, prefix |-> 0],
             ipv6_block |-> [addr |-> 0, prefix |-> 0], rcgen |-> 0]

SubnetRow(v, n, b4, b6) ==
    [st |-> "live", vpc_id |-> v, name |-> n, ipv4_block |-> b4,
     ipv6_block |-> b6, rcgen |-> 0]

LiveSubnetsOf(v) ==
    {i \in SubnetIds : subnet[i].st = "live" /\ subnet[i].vpc_id = v}

\* FilterConflictingVpcSubnetRangesQuery: the candidate is selected for
\* insertion only if no live subnet of its VPC overlaps it in either family;
\* two blocks overlap unless one ends before the other starts.
RangesOverlap(f1, l1, f2, l2) == ~(l1 < f2 \/ l2 < f1)

Ipv4Conflict(row) ==
    \E i \in LiveSubnetsOf(row.vpc_id) :
        RangesOverlap(First(row.ipv4_block), Last(row.ipv4_block, V4Bits),
                      First(subnet[i].ipv4_block),
                      Last(subnet[i].ipv4_block, V4Bits))

Ipv6Conflict(row) ==
    \E i \in LiveSubnetsOf(row.vpc_id) :
        RangesOverlap(First(row.ipv6_block), Last(row.ipv6_block, V6Bits),
                      First(subnet[i].ipv6_block),
                      Last(subnet[i].ipv6_block, V6Bits))

FilterConflictingVpcSubnetRangesQuery(row) ==
    IF Ipv4Conflict(row) THEN "OverlappingIpRange(ipv4)"
    ELSE IF Ipv6Conflict(row) THEN "OverlappingIpRange(ipv6)"
    ELSE "Ok"

\* The unique indexes of the vpc_subnet table: the primary key and
\* (vpc_id, name) among live rows.
SubnetUniqueViolation(id, row) ==
    \/ subnet[id].st # "none"
    \/ \E i \in LiveSubnetsOf(row.vpc_id) : subnet[i].name = row.name

\* vpc_create_subnet_raw: one INSERT whose values are the conflict filter's;
\* the outcome of the statement for the row.  The variant inserts the row as
\* given, without the filter.
vpc_create_subnet_raw_NoFilter(id, row) ==
    IF SubnetUniqueViolation(id, row) THEN "ObjectAlreadyExists" ELSE "Ok"

vpc_create_subnet_raw(id, row) ==
    IF FilterConflictingVpcSubnetRangesQuery(row) # "Ok"
      THEN FilterConflictingVpcSubnetRangesQuery(row)
    ELSE IF SubnetUniqueViolation(id, row) THEN "ObjectAlreadyExists"
    ELSE "Ok"

(***************************************************************************)
(* vpc_create_subnet(authz_vpc, subnet): the caller has looked the VPC up;  *)
(* the method authorizes and runs the raw insert.                          *)
(***************************************************************************)
IdleSubnetCall == [pc |-> "idle", authorized |-> TRUE, vpc_id |-> "e1",
                   row |-> NoSubnet, res |-> ""]

\* The caller's lookup of the VPC, which yields authz_vpc.
CreateSubnetStart(k, v, authorized) ==
    LET s == CreateSubnetCalls[k]
    IN /\ createSubnet[s].pc = "idle"
       /\ k > 1 => createSubnet[CreateSubnetCalls[k - 1]].pc # "idle"
       /\ vpc[v].st = "live"
       /\ createSubnet' = [createSubnet EXCEPT ![s] =
              [IdleSubnetCall EXCEPT !.pc = "insert", !.vpc_id = v,
                                     !.authorized = authorized]]
       /\ UNCHANGED <<planningVars, routerVars, httpVars, load>>
       /\ UNCHANGED <<project, vpc, createVpc, deleteVpc, subnet,
                      deleteSubnet, fwVars, resolveVars>>

\* The method itself, for the subnet (n, b4, b6) of the request; a call
\* that fails keeps the row it was given.
CreateSubnetInsert(s, n, b4, b6) ==
    LET call == createSubnet[s]
        row == SubnetRow(call.vpc_id, n, b4, b6)
        r == IF call.authorized THEN vpc_create_subnet_raw(s, row)
             ELSE "Forbidden"
    IN /\ call.pc = "insert"
       /\ subnet' = IF r = "Ok" THEN [subnet EXCEPT ![s] = row] ELSE subnet
       /\ createSubnet' = [createSubnet EXCEPT ![s] =
              [call EXCEPT !.pc = "done", !.res = r,
                           !.row = IF r = "Ok" THEN NoSubnet ELSE row]]
       /\ UNCHANGED <<planningVars, routerVars, httpVars, load>>
       /\ UNCHANGED <<project, vpc, createVpc, deleteVpc, deleteSubnet,
                      fwVars, resolveVars>>

(***************************************************************************)
(* vpc_delete_subnet(db_subnet, authz_subnet): the caller has fetched       *)
(* db_subnet; the method checks for live network interfaces, then          *)
(* soft-deletes the row if rcgen still equals the snapshot's.               *)
(***************************************************************************)
IdleSubnetDelete == [pc |-> "idle", subnet_id |-> "s1", rcgen |-> 0,
                     authorized |-> TRUE, res |-> ""]

\* The network_interface table holds the NICs of instances and of services.
HasLiveNic(s) ==
    \/ \E n \in InicIds : inic[n].st = "live" /\ inic[n].subnet_id = s
    \/ \E n \in SnicIds : snic[n].st = "live" /\ snic[n].subnet_id = s

DeleteSubnetStart(d, s, authorized) ==
    /\ deleteSubnet[d].pc = "idle"
    /\ subnet[s].st = "live"
    /\ deleteSubnet' = [deleteSubnet EXCEPT ![d] =
           [pc |-> "check", subnet_id |-> s, rcgen |-> subnet[s].rcgen,
            authorized |-> authorized, res |-> ""]]
    /\ UNCHANGED <<planningVars, routerVars, httpVars, load>>
    /\ UNCHANGED <<project, vpc, createVpc, deleteVpc, subnet, createSubnet,
                   fwVars, resolveVars>>

\* The variant skips the query for live network interfaces.
DeleteSubnetCheck_NoNicQuery(d) ==
    LET call == deleteSubnet[d]
    IN /\ call.pc = "check"
       /\ deleteSubnet' = [deleteSubnet EXCEPT ![d] =
              IF ~call.authorized
                THEN [call EXCEPT !.pc = "done", !.res = "Forbidden"]
              ELSE [call EXCEPT !.pc = "update"]]
       /\ UNCHANGED <<planningVars, routerVars, httpVars, load>>
       /\ UNCHANGED <<project, vpc, createVpc, deleteVpc, subnet,
                      createSubnet, fwVars, resolveVars>>

DeleteSubnetCheck(d) ==
    LET call == deleteSubnet[d]
    IN /\ call.pc = "check"
       /\ deleteSubnet' = [deleteSubnet EXCEPT ![d] =
              IF ~call.authorized
                THEN [call EXCEPT !.pc = "done", !.res = "Forbidden"]
              ELSE IF HasLiveNic(call.subnet_id)
                THEN [call EXCEPT !.pc = "done",
                         !.res = "InvalidRequest(network interfaces exist)"]
              ELSE [call EXCEPT !.pc = "update"]]
       /\ UNCHANGED <<planningVars, routerVars, httpVars, load>>
       /\ UNCHANGED <<project, vpc, createVpc, deleteVpc, subnet,
                      createSubnet, fwVars, resolveVars>>

DeleteSubnetUpdate(d) ==
    LET call == deleteSubnet[d]
        s == call.subnet_id
        matches == subnet[s].st = "live" /\ subnet[s].rcgen = call.rcgen
    IN /\ call.pc = "update"
       /\ subnet' = IF matches THEN [subnet EXCEPT ![s].st = "deleted"]
                    ELSE subnet
       /\ deleteSubnet' = [deleteSubnet EXCEPT ![d] =
              [call EXCEPT !.pc = "done",
                  !.res = IF matches THEN "Ok"
                          ELSE "InvalidRequest(concurrent modification)"]]
       /\ UNCHANGED <<planningVars, routerVars, httpVars, load>>
       /\ UNCHANGED <<project, vpc, createVpc, deleteVpc, createSubnet,
                      fwVars, resolveVars>>

NoSubnets ==
    /\ subnet = [i \in SubnetIds |-> NoSubnet]
    /\ createSubnet = [i \in CreateSubnetIds |-> IdleSubnetCall]
    /\ deleteSubnet = [d \in DeleteSubnetCalls |-> IdleSubnetDelete]

(***************************************************************************)
(* Firewall rules.  A rule of a call is [id, name]; a row of the table is   *)
(* [st, vpc_id, name].                                                     *)
(***************************************************************************)
\* body stands for what a rule says (targets, filters, action): "user" for
\* what a caller gave, "builtin" for what the fixed data gives.
NoRule == [st |-> "none", vpc_id |-> "e1", name |-> "a", body |-> "user"]

LiveRulesOf(v) ==
    {i \in RuleIds : fwrule[i].st = "live" /\ fwrule[i].vpc_id = v}

\* The order of names: that of strings.
NameOrder == RuleNames \o <<DNS_VPC_FW_RULE, NEXUS_VPC_FW_RULE>>
NameRank(n) == CHOOSE i \in DOMAIN NameOrder : NameOrder[i] = n

RuleLists == UNION {[1..k -> {RuleNames[i] : i \in DOMAIN RuleNames}] :
                      k \in 0..MaxRules}

\* The Vec<VpcFirewallRule> of call u for the names it was given.
Rules(u, names) == [i \in DOMAIN names |-> [id |-> <<u, i>>, name |-> names[i]]]

\* rules.sort_by_key(|r| r.name()): a stable sort.  The variant leaves the
\* rules as given.
RECURSIVE InsertByName(_, _)
InsertByName(r, sorted) ==
    IF sorted = << >> THEN <<r>>
    ELSE IF NameRank(r.name) < NameRank(Head(sorted).name)
      THEN <<r>> \o sorted
    ELSE <<Head(sorted)>> \o InsertByName(r, Tail(sorted))

SortByName_AsGiven(rules) == rules

RECURSIVE SortByName(_)
SortByName(rules) ==
    IF rules = << >> THEN << >>
    ELSE InsertByName(rules[Len(rules)],
                      SortByName(SubSeq(rules, 1, Len(rules) - 1)))

\* ORDER BY name ASC over a set of rows.
RECURSIVE OrderByName(_)
OrderByName(S) ==
    IF S = {} THEN << >>
    ELSE LET m == CHOOSE r \in S :
                    \A q \in S : NameRank(r.name) <= NameRank(q.name)
         IN <<m>> \o OrderByName(S \ {m})

vpc_list_firewall_rules(v) ==
    OrderByName({[id |-> i, name |-> fwrule[i].name] : i \in LiveRulesOf(v)})

\* The unique index on (vpc_id, name) among live rules, for rows inserted
\* after the transaction has soft-deleted every live rule of the VPC.
\* The variant: no such index.
FwNameConflict_NoIndex(rules) == FALSE

FwNameConflict(rules) ==
    \E i, j \in DOMAIN rules : i # j /\ rules[i].name = rules[j].name

\* Vpc::insert_resource: the insert happens only if the VPC row is live.
insert_resource(v) ==
    IF vpc[v].st = "live" THEN "Ok" ELSE "CollectionNotFound"

\* The rules are inserted as a collection insert into their VPC.  The
\* variant is a plain insert into the rule table.
InsertRules_Plain(v) == "Ok"

InsertRules(v) == insert_resource(v)

\* The write lock on the VPC row that the generation bump of a collection
\* insert holds until its transaction ends.
VpcRowLocked(v) ==
    \E u \in FwCalls :
        /\ updateFw[u].pc = "commit"
        /\ updateFw[u].vpc_id = v
        /\ updateFw[u].given # << >>

(***************************************************************************)
(* vpc_update_firewall_rules(authz_vpc, rules): one transaction that        *)
(* soft-deletes the live rules of the VPC and inserts the new ones.  The   *)
(* transaction's writes become visible at its commit; it commits only if   *)
(* the rules it read are still the live rules, and is rerun otherwise.     *)
(***************************************************************************)
IdleUpdateFw == [pc |-> "idle", vpc_id |-> "e1", given |-> << >>,
                 bodies |-> << >>, seen |-> {}, retries |-> 0, res |-> "",
                 returned |-> << >>]
UserBodies(names) == [k \in DOMAIN names |-> "user"]

\* The call of a caller whose authz_vpc comes from a lookup made while the
\* VPC row was live; the row may be soft-deleted by now.
UpdateFwStartHeld(u, v, names) ==
    /\ updateFw[u].pc = "idle"
    /\ vpc[v].st # "none"
    /\ updateFw' = [updateFw EXCEPT ![u] =
           [IdleUpdateFw EXCEPT !.pc = "delete_old", !.vpc_id = v,
                                !.given = names,
                                !.bodies = UserBodies(names)]]
    /\ UNCHANGED <<planningVars, routerVars, httpVars, load>>
    /\ UNCHANGED <<project, vpc, createVpc, deleteVpc, subnetVars, fwrule,
                   deleteAllFw, resolveVars>>

UpdateFwStart(u, v, names, authorized) ==
    /\ updateFw[u].pc = "idle"
    /\ vpc[v].st = "live"
    /\ updateFw' = [updateFw EXCEPT ![u] =
           IF authorized
             THEN [IdleUpdateFw EXCEPT !.pc = "delete_old", !.vpc_id = v,
                                       !.given = names,
                                       !.bodies = UserBodies(names)]
             ELSE [IdleUpdateFw EXCEPT !.pc = "done", !.vpc_id = v,
                                       !.given = names,
                                       !.bodies = UserBodies(names),
                                       !.res = "Forbidden"]]
    /\ UNCHANGED <<planningVars, routerVars, httpVars, load>>
    /\ UNCHANGED <<project, vpc, createVpc, deleteVpc, subnetVars, fwrule,
                   deleteAllFw, resolveVars>>

\* The variant runs the collection insert for an empty list as well.
UpdateFwDeleteOld_AlwaysInsert(u) ==
    LET call == updateFw[u]
    IN /\ call.pc = "delete_old"
       /\ updateFw' = [updateFw EXCEPT ![u] =
              [call EXCEPT !.seen = LiveRulesOf(call.vpc_id),
                           !.pc = "insert"]]
       /\ UNCHANGED <<planningVars, routerVars, httpVars, load>>
       /\ UNCHANGED <<project, vpc, createVpc, deleteVpc, subnetVars, fwrule,
                      deleteAllFw, resolveVars>>

UpdateFwDeleteOld(u) ==
    LET call == updateFw[u]
    IN /\ call.pc = "delete_old"
       /\ updateFw' = [updateFw EXCEPT ![u] =
              [call EXCEPT !.seen = LiveRulesOf(call.vpc_id),
                           !.pc = IF call.given = << >> THEN "commit"
                                  ELSE "insert"]]
       /\ UNCHANGED <<planningVars, routerVars, httpVars, load>>
       /\ UNCHANGED <<project, vpc, createVpc, deleteVpc, subnetVars, fwrule,
                      deleteAllFw, resolveVars>>

\* A serialization failure: the retry wrapper reruns the transaction, up to
\* its cap.
RetryFw(call) ==
    IF call.retries < MaxFwRetries
      THEN [call EXCEPT !.pc = "delete_old", !.seen = {},
                        !.retries = call.retries + 1]
      ELSE [call EXCEPT !.pc = "done", !.seen = {},
                        !.res = "ServiceUnavailable"]

UpdateFwInsert(u) ==
    LET call == updateFw[u]
        v == call.vpc_id
    IN /\ call.pc = "insert"
       /\ ~VpcRowLocked(v)
       /\ updateFw' = [updateFw EXCEPT ![u] =
              IF InsertRules(v) = "CollectionNotFound"
                THEN [call EXCEPT !.pc = "done", !.seen = {},
                                  !.res = "NotFound(Vpc)"]
              ELSE IF LiveRulesOf(v) # call.seen THEN RetryFw(call)
              ELSE IF FwNameConflict(Rules(u, call.given))
                THEN [call EXCEPT !.pc = "done", !.seen = {},
                                  !.res = "InternalError"]
              ELSE [call EXCEPT !.pc = "commit"]]
       /\ UNCHANGED <<planningVars, routerVars, httpVars, load>>
       /\ UNCHANGED <<project, vpc, createVpc, deleteVpc, subnetVars, fwrule,
                      deleteAllFw, resolveVars>>

\* The variant keeps the rows an aborted attempt inserted.
UpdateFwCommit_AbortKeepsRows(u) ==
    LET call == updateFw[u]
        v == call.vpc_id
        rules == SortByName(Rules(u, call.given))
        inserted == {rules[k].id : k \in DOMAIN rules}
    IN /\ call.pc = "commit"
       /\ IF LiveRulesOf(v) # call.seen
            THEN /\ updateFw' = [updateFw EXCEPT ![u] = RetryFw(call)]
                 /\ fwrule' = [i \in RuleIds |->
                        IF i \in inserted
                          THEN [st |-> "live", vpc_id |-> v,
                                name |-> call.given[i[2]],
                                body |-> call.bodies[i[2]]]
                        ELSE fwrule[i]]
                 /\ vpc' = vpc
            ELSE /\ fwrule' = [i \in RuleIds |->
                        IF i \in call.seen
                          THEN [fwrule[i] EXCEPT !.st = "deleted"]
                        ELSE IF i \in inserted
                          THEN [st |-> "live", vpc_id |-> v,
                                name |-> call.given[i[2]],
                                body |-> call.bodies[i[2]]]
                        ELSE fwrule[i]]
                 /\ vpc' = IF rules = << >> THEN vpc
                           ELSE [vpc EXCEPT ![v].firewall_gen = @ + 1]
                 /\ updateFw' = [updateFw EXCEPT ![u] =
                        [call EXCEPT !.pc = "done", !.seen = {},
                                     !.res = "Ok", !.returned = rules]]
       /\ UNCHANGED <<planningVars, routerVars, httpVars, load>>
       /\ UNCHANGED <<project, createVpc, deleteVpc, subnetVars, deleteAllFw,
                      resolveVars>>

\* The variant's insert leaves the generation of the VPC row as it is.
UpdateFwCommit_NoGenBump(u) ==
    LET call == updateFw[u]
        v == call.vpc_id
        rules == SortByName(Rules(u, call.given))
        inserted == {rules[k].id : k \in DOMAIN rules}
    IN /\ call.pc = "commit"
       /\ IF LiveRulesOf(v) # call.seen
            THEN /\ updateFw' = [updateFw EXCEPT ![u] = RetryFw(call)]
                 /\ UNCHANGED <<vpc, fwrule>>
            ELSE /\ fwrule' = [i \in RuleIds |->
                        IF i \in call.seen
                          THEN [fwrule[i] EXCEPT !.st = "deleted"]
                        ELSE IF i \in inserted
                          THEN [st |-> "live", vpc_id |-> v,
                                name |-> call.given[i[2]],
                                body |-> call.bodies[i[2]]]
                        ELSE fwrule[i]]
                 /\ vpc' = vpc
                 /\ updateFw' = [updateFw EXCEPT ![u] =
                        [call EXCEPT !.pc = "done", !.seen = {},
                                     !.res = "Ok", !.returned = rules]]
       /\ UNCHANGED <<planningVars, routerVars, httpVars, load>>
       /\ UNCHANGED <<project, createVpc, deleteVpc, subnetVars, deleteAllFw,
                      resolveVars>>

UpdateFwCommit(u) ==
    LET call == updateFw[u]
        v == call.vpc_id
        rules == SortByName(Rules(u, call.given))
        inserted == {rules[k].id : k \in DOMAIN rules}
    IN /\ call.pc = "commit"
       /\ IF LiveRulesOf(v) # call.seen
            THEN /\ updateFw' = [updateFw EXCEPT ![u] = RetryFw(call)]
                 /\ UNCHANGED <<vpc, fwrule>>
            ELSE /\ fwrule' = [i \in RuleIds |->
                        IF i \in call.seen
                          THEN [fwrule[i] EXCEPT !.st = "deleted"]
                        ELSE IF i \in inserted
                          THEN [st |-> "live", vpc_id |-> v,
                                name |-> call.given[i[2]],
                                body |-> call.bodies[i[2]]]
                        ELSE fwrule[i]]
                 /\ vpc' = IF rules = << >> THEN vpc
                           ELSE [vpc EXCEPT ![v].firewall_gen = @ + 1]
                 /\ updateFw' = [updateFw EXCEPT ![u] =
                        [call EXCEPT !.pc = "done", !.seen = {},
                                     !.res = "Ok", !.returned = rules]]
       /\ UNCHANGED <<planningVars, routerVars, httpVars, load>>
       /\ UNCHANGED <<project, createVpc, deleteVpc, subnetVars, deleteAllFw,
                      resolveVars>>

(***************************************************************************)
(* vpc_delete_all_firewall_rules(authz_vpc): one UPDATE.                    *)
(***************************************************************************)
\* The variant reports an error when its UPDATE changed no row.
DeleteAllFw_ErrOnNoRows(d, v, authorized) ==
    /\ deleteAllFw[d] = ""
    /\ vpc[v].st # "none"
    /\ deleteAllFw' = [deleteAllFw EXCEPT ![d] =
           IF ~authorized THEN "Forbidden"
           ELSE IF LiveRulesOf(v) = {} THEN "NotFound(Vpc)"
           ELSE "Ok"]
    /\ fwrule' = [i \in RuleIds |->
           IF authorized /\ i \in LiveRulesOf(v)
             THEN [fwrule[i] EXCEPT !.st = "deleted"] ELSE fwrule[i]]
    /\ UNCHANGED <<planningVars, routerVars, httpVars, load>>
    /\ UNCHANGED <<project, vpc, createVpc, deleteVpc, subnetVars, updateFw,
                   resolveVars>>

DeleteAllFw(d, v, authorized) ==
    /\ deleteAllFw[d] = ""
    /\ vpc[v].st # "none"
    /\ deleteAllFw' = [deleteAllFw EXCEPT ![d] =
           IF authorized THEN "Ok" ELSE "Forbidden"]
    /\ fwrule' = [i \in RuleIds |->
           IF authorized /\ i \in LiveRulesOf(v)
             THEN [fwrule[i] EXCEPT !.st = "deleted"] ELSE fwrule[i]]
    /\ UNCHANGED <<planningVars, routerVars, httpVars, load>>
    /\ UNCHANGED <<project, vpc, createVpc, deleteVpc, subnetVars, updateFw,
                   resolveVars>>

NoFw ==
    /\ fwrule = [i \in RuleIds |-> NoRule]
    /\ updateFw = [u \in FwCalls |-> IdleUpdateFw]
    /\ deleteAllFw = [d \in DeleteAllFwCalls |-> ""]

(***************************************************************************)
(* project_delete_vpc(db_vpc, authz_vpc): the caller has fetched db_vpc;   *)
(* the method checks for live subnets, then soft-deletes the row if        *)
(* subnet_gen still equals the snapshot's.                                 *)
(***************************************************************************)
IdleDelete == [pc |-> "idle", vpc_id |-> "e1", subnet_gen |-> 0,
               authorized |-> TRUE, res |-> "", during |-> {}]

\* History: the rule replacements on v that have begun and not ended.
UpdatesInFlight(v) ==
    {u \in FwCalls : /\ updateFw[u].pc \notin {"idle", "done"}
                           /\ updateFw[u].vpc_id = v}

\* The variant counts soft-deleted subnets too.
HasLiveSubnet_AnyRow(v) ==
    \E i \in SubnetIds : subnet[i].st # "none" /\ subnet[i].vpc_id = v

HasLiveSubnet(v) ==
    \E i \in SubnetIds : subnet[i].st = "live" /\ subnet[i].vpc_id = v

DeleteVpcStart(d, v, authorized) ==
    /\ deleteVpc[d].pc = "idle"
    /\ vpc[v].st = "live"
    /\ deleteVpc' = [deleteVpc EXCEPT ![d] =
           [pc |-> "check", vpc_id |-> v, subnet_gen |-> vpc[v].subnet_gen,
            authorized |-> authorized, res |-> "",
            during |-> UpdatesInFlight(v)]]
    /\ UNCHANGED <<planningVars, routerVars, httpVars, load>>
    /\ UNCHANGED <<project, vpc, createVpc, subnetVars, fwVars, resolveVars>>

\* The same call with a db_vpc that the caller fetched earlier, when the
\* row's subnet_gen was subnet_gen.
DeleteVpcStartFrom(d, v, subnet_gen, authorized) ==
    /\ deleteVpc[d].pc = "idle"
    /\ vpc[v].st = "live"
    /\ subnet_gen <= vpc[v].subnet_gen
    /\ deleteVpc' = [deleteVpc EXCEPT ![d] =
           [pc |-> "check", vpc_id |-> v, subnet_gen |-> subnet_gen,
            authorized |-> authorized, res |-> "",
            during |-> UpdatesInFlight(v)]]
    /\ UNCHANGED <<planningVars, routerVars, httpVars, load>>
    /\ UNCHANGED <<project, vpc, createVpc, subnetVars, fwVars, resolveVars>>

\* The same call with the db_vpc and authz_vpc of a lookup made while the
\* row was live; the row may be soft-deleted by now.
DeleteVpcStartHeld(d, v) ==
    /\ deleteVpc[d].pc = "idle"
    /\ vpc[v].st # "none"
    /\ deleteVpc' = [deleteVpc EXCEPT ![d] =
           [pc |-> "check", vpc_id |-> v, subnet_gen |-> vpc[v].subnet_gen,
            authorized |-> TRUE, res |-> "",
            during |-> UpdatesInFlight(v)]]
    /\ UNCHANGED <<planningVars, routerVars, httpVars, load>>
    /\ UNCHANGED <<project, vpc, createVpc, subnetVars, fwVars, resolveVars>>

DeleteVpcCheck(d) ==
    LET call == deleteVpc[d]
    IN /\ call.pc = "check"
       /\ deleteVpc' = [deleteVpc EXCEPT ![d] =
              IF ~call.authorized
                THEN [call EXCEPT !.pc = "done", !.res = "Forbidden"]
              ELSE IF HasLiveSubnet(call.vpc_id)
                THEN [call EXCEPT !.pc = "done",
                         !.res = "InvalidRequest(subnets exist)"]
              ELSE [call EXCEPT !.pc = "update"]]
       /\ UNCHANGED <<planningVars, routerVars, httpVars, load>>
       /\ UNCHANGED <<project, vpc, createVpc, subnetVars, fwVars, resolveVars>>

\* The variant's UPDATE has no filter on subnet_gen.
DeleteVpcUpdate_NoGen(d) ==
    LET call == deleteVpc[d]
        v == call.vpc_id
        matches == vpc[v].st = "live"
    IN /\ call.pc = "update"
       /\ ~VpcRowLocked(v)
       /\ vpc' = IF matches THEN [vpc EXCEPT ![v].st = "deleted"] ELSE vpc
       /\ deleteVpc' = [deleteVpc EXCEPT ![d] =
              [call EXCEPT !.pc = "done",
                  !.res = IF matches THEN "Ok"
                          ELSE "InvalidRequest(concurrent modification)"]]
       /\ UNCHANGED <<planningVars, routerVars, httpVars, load>>
       /\ UNCHANGED <<project, createVpc, subnetVars, fwVars, resolveVars>>

\* The variant soft-deletes the VPC's firewall rules with the VPC.
DeleteVpcUpdate_Cascade(d) ==
    LET call == deleteVpc[d]
        v == call.vpc_id
        matches == vpc[v].st = "live" /\ vpc[v].subnet_gen = call.subnet_gen
    IN /\ call.pc = "update"
       /\ ~VpcRowLocked(v)
       /\ vpc' = IF matches THEN [vpc EXCEPT ![v].st = "deleted"] ELSE vpc
       /\ fwrule' = [i \in RuleIds |->
              IF matches /\ i \in LiveRulesOf(v)
                THEN [fwrule[i] EXCEPT !.st = "deleted"] ELSE fwrule[i]]
       /\ deleteVpc' = [deleteVpc EXCEPT ![d] =
              [call EXCEPT !.pc = "done",
                  !.res = IF matches THEN "Ok"
                          ELSE "InvalidRequest(concurrent modification)"]]
       /\ UNCHANGED <<planningVars, routerVars, httpVars, load>>
       /\ UNCHANGED <<project, createVpc, subnetVars, updateFw, deleteAllFw,
                      resolveVars>>

DeleteVpcUpdate(d) ==
    LET call == deleteVpc[d]
        v == call.vpc_id
        matches == vpc[v].st = "live" /\ vpc[v].subnet_gen = call.subnet_gen
    IN /\ call.pc = "update"
       /\ ~VpcRowLocked(v)
       /\ vpc' = IF matches THEN [vpc EXCEPT ![v].st = "deleted"] ELSE vpc
       /\ deleteVpc' = [deleteVpc EXCEPT ![d] =
              [call EXCEPT !.pc = "done",
                  !.res = IF matches THEN "Ok"
                          ELSE "InvalidRequest(concurrent modification)"]]
       /\ UNCHANGED <<planningVars, routerVars, httpVars, load>>
       /\ UNCHANGED <<project, createVpc, subnetVars, fwVars, resolveVars>>

\* A project is soft-deleted by its own datastore method, which refuses
\* while the project has live VPCs.
ProjectSoftDelete(p) ==
    /\ project[p] = "live"
    /\ ~\E i \in LiveVpcs : vpc[i].project_id = p
    /\ project' = [project EXCEPT ![p] = "deleted"]
    /\ UNCHANGED <<planningVars, routerVars, httpVars, load>>
    /\ UNCHANGED <<vpc, createVpc, deleteVpc, subnetVars, fwVars, resolveVars>>

(***************************************************************************)
(* Routers and routes, and the other operations of one statement.  A       *)
(* router row is [st, vpc_id, kind, name, rcgen], a route row is [st,      *)
(* vpc_router_id, name].  called is the last call: its operation, the id   *)
(* it was given, whether the authorization check passes, its result, and   *)
(* for a list operation the ids of the rows it returned.                   *)
(***************************************************************************)
RouterIds == {"r1", "r2"}
RouteIds == {"t1", "t2"}
RouterKinds == {"System", "Custom"}

\* time_deleted is 0 for NULL and otherwise counts the writes of the column:
\* each write stores its own Utc::now(), so a second write changes the value.
NoRouter == [st |-> "none", vpc_id |-> "e1", kind |-> "Custom",
             name |-> "a", rcgen |-> 0, time_deleted |-> 0]
NoRoute == [st |-> "none", vpc_router_id |-> "r1", name |-> "a",
            time_deleted |-> 0]
NotCalled == [op |-> "", id |-> "", authorized |-> TRUE, result |-> "",
              rows |-> {}]
Called(op, id, authorized, result, rows) ==
    [op |-> op, id |-> id, authorized |-> authorized, result |-> result,
     rows |-> rows]

NoRouters ==
    /\ router = [r \in RouterIds |-> NoRouter]
    /\ route = [t \in RouteIds |-> NoRoute]
    /\ called = NotCalled

\* Vpc.system_router_id: the id the VPC row was created with.
system_router_id(v) == IF v = "e1" THEN "r1" ELSE "r2"

LiveRoutersOf(v) ==
    {r \in RouterIds : router[r].st = "live" /\ router[r].vpc_id = v}
LiveRoutesOf(r) ==
    {t \in RouteIds : route[t].st = "live" /\ route[t].vpc_router_id = r}

\* The unique indexes on the name among the live rows of a parent.
VpcNameConflict(id, n) ==
    \E i \in LiveVpcs :
        i # id /\ vpc[i].project_id = vpc[id].project_id /\ vpc[i].name = n
SubnetNameConflict(id, n) ==
    \E i \in LiveSubnetsOf(subnet[id].vpc_id) : i # id /\ subnet[i].name = n
RouterNameConflict(id, v, n) ==
    \E r \in LiveRoutersOf(v) : r # id /\ router[r].name = n
RouteNameConflict(id, r, n) ==
    \E t \in LiveRoutesOf(r) : t # id /\ route[t].name = n

\* vpc_list, project_update_vpc
VpcList(p, authorized) ==
    /\ called' = IF ~authorized
                   THEN Called("vpc_list", p, FALSE, "Forbidden", {})
                   ELSE Called("vpc_list", p, TRUE, "Ok",
                               {i \in VpcIds : vpc[i].st = "live"
                                                 /\ vpc[i].project_id = p})
    /\ UNCHANGED <<httpVars, load>>
    /\ UNCHANGED <<project, vpc, createVpc, deleteVpc, subnetVars, fwVars,
                   resolveVars, planningVars, router, route>>

ProjectUpdateVpc(v, name, authorized) ==
    /\ vpc[v].st # "none"
    /\ IF ~authorized
         THEN /\ called' = Called("project_update_vpc", v, FALSE,
                                  "Forbidden", {})
              /\ vpc' = vpc
         ELSE IF vpc[v].st # "live"
         THEN /\ called' = Called("project_update_vpc", v, TRUE,
                                  "ObjectNotFound", {})
              /\ vpc' = vpc
         ELSE IF VpcNameConflict(v, name)
         THEN /\ called' = Called("project_update_vpc", v, TRUE,
                                  "InternalError", {})
              /\ vpc' = vpc
         ELSE /\ called' = Called("project_update_vpc", v, TRUE, "Ok", {v})
              /\ vpc' = [vpc EXCEPT ![v].name = name]
    /\ UNCHANGED <<httpVars, load>>
    /\ UNCHANGED <<project, createVpc, deleteVpc, subnetVars, fwVars,
                   resolveVars, planningVars, router, route>>

\* vpc_subnet_list, vpc_update_subnet
VpcSubnetList(v, authorized) ==
    /\ called' = IF ~authorized
                   THEN Called("vpc_subnet_list", v, FALSE, "Forbidden", {})
                   ELSE Called("vpc_subnet_list", v, TRUE, "Ok",
                               LiveSubnetsOf(v))
    /\ UNCHANGED <<httpVars, load>>
    /\ UNCHANGED <<project, vpc, createVpc, deleteVpc, subnetVars, fwVars,
                   resolveVars, planningVars, router, route>>

VpcUpdateSubnet(x, name, authorized) ==
    /\ subnet[x].st # "none"
    /\ IF ~authorized
         THEN /\ called' = Called("vpc_update_subnet", x, FALSE,
                                  "Forbidden", {})
              /\ subnet' = subnet
         ELSE IF subnet[x].st # "live"
         THEN /\ called' = Called("vpc_update_subnet", x, TRUE,
                                  "ObjectNotFound", {})
              /\ subnet' = subnet
         ELSE IF SubnetNameConflict(x, name)
         THEN /\ called' = Called("vpc_update_subnet", x, TRUE,
                                  "InternalError", {})
              /\ subnet' = subnet
         ELSE /\ called' = Called("vpc_update_subnet", x, TRUE, "Ok", {x})
              /\ subnet' = [subnet EXCEPT ![x].name = name]
    /\ UNCHANGED <<httpVars, load>>
    /\ UNCHANGED <<project, vpc, createVpc, deleteVpc, createSubnet,
                   deleteSubnet, fwVars, resolveVars, planningVars, router,
                   route>>

\* vpc_list_firewall_rules, as a call.
VpcListFirewallRules(v, authorized) ==
    /\ called' = IF ~authorized
                   THEN Called("vpc_list_firewall_rules", v, FALSE,
                               "Forbidden", {})
                   ELSE Called("vpc_list_firewall_rules", v, TRUE, "Ok",
                               LiveRulesOf(v))
    /\ UNCHANGED <<httpVars, load>>
    /\ UNCHANGED <<project, vpc, createVpc, deleteVpc, subnetVars, fwVars,
                   resolveVars, planningVars, router, route>>

\* vpc_router_list
VpcRouterList(v, authorized) ==
    /\ called' = IF ~authorized
                   THEN Called("vpc_router_list", v, FALSE, "Forbidden", {})
                   ELSE Called("vpc_router_list", v, TRUE, "Ok",
                               LiveRoutersOf(v))
    /\ UNCHANGED <<httpVars, load>>
    /\ UNCHANGED <<project, vpc, createVpc, deleteVpc, subnetVars, fwVars,
                   resolveVars, planningVars, router, route>>

\* vpc_create_router: INSERT ... ON CONFLICT (id) DO NOTHING RETURNING.  The
\* kind of the router is the caller's.
VpcCreateRouter(id, v, kind, name, authorized) ==
    /\ vpc[v].st # "none"
    /\ IF ~authorized
         THEN /\ called' = Called("vpc_create_router", id, FALSE,
                                  "Forbidden", {})
              /\ router' = router
         ELSE IF router[id].st # "none"
         THEN /\ called' = Called("vpc_create_router", id, TRUE,
                                  "InternalError", {})
              /\ router' = router
         ELSE IF RouterNameConflict(id, v, name)
         THEN /\ called' = Called("vpc_create_router", id, TRUE,
                                  "ObjectAlreadyExists", {})
              /\ router' = router
         ELSE /\ called' = Called("vpc_create_router", id, TRUE, "Ok", {id})
              /\ router' = [router EXCEPT ![id] =
                               [st |-> "live", vpc_id |-> v, kind |-> kind,
                                name |-> name, rcgen |-> 0,
                                time_deleted |-> 0]]
    /\ UNCHANGED <<httpVars, load>>
    /\ UNCHANGED <<project, vpc, createVpc, deleteVpc, subnetVars, fwVars,
                   resolveVars, planningVars, route>>

\* The variant drops the filter time_deleted IS NULL: a second delete writes
\* the column again.
VpcDeleteRouter_NoLiveFilter(r, authorized) ==
    /\ router[r].st # "none"
    /\ IF ~authorized
         THEN /\ called' = Called("vpc_delete_router", r, FALSE,
                                  "Forbidden", {})
              /\ router' = router
         ELSE /\ called' = Called("vpc_delete_router", r, TRUE, "Ok", {})
              /\ router' = [router EXCEPT ![r].st = "deleted",
                                          ![r].time_deleted = @ + 1]
    /\ UNCHANGED <<httpVars, load>>
    /\ UNCHANGED <<project, vpc, createVpc, deleteVpc, subnetVars, fwVars,
                   resolveVars, planningVars, route>>

\* vpc_delete_router: one UPDATE of the live row with the id; the number of
\* rows it changed is not looked at.
VpcDeleteRouter(r, authorized) ==
    /\ router[r].st # "none"
    /\ IF ~authorized
         THEN /\ called' = Called("vpc_delete_router", r, FALSE,
                                  "Forbidden", {})
              /\ router' = router
         ELSE /\ called' = Called("vpc_delete_router", r, TRUE, "Ok", {})
              /\ router' = [x \in RouterIds |->
                               IF x = r /\ router[x].time_deleted = 0
                                 THEN [router[x] EXCEPT
                                         !.st = "deleted",
                                         !.time_deleted = @ + 1]
                                 ELSE router[x]]
    /\ UNCHANGED <<httpVars, load>>
    /\ UNCHANGED <<project, vpc, createVpc, deleteVpc, subnetVars, fwVars,
                   resolveVars, planningVars, route>>

\* The variant updates the row whether it is live or not.
VpcUpdateRouter_AnyRow(r, name, authorized) ==
    /\ router[r].st # "none"
    /\ IF ~authorized
         THEN /\ called' = Called("vpc_update_router", r, FALSE,
                                  "Forbidden", {})
              /\ router' = router
         ELSE /\ called' = Called("vpc_update_router", r, TRUE, "Ok", {r})
              /\ router' = [router EXCEPT ![r].name = name]
    /\ UNCHANGED <<httpVars, load>>
    /\ UNCHANGED <<project, vpc, createVpc, deleteVpc, subnetVars, fwVars,
                   resolveVars, planningVars, route>>

\* vpc_update_router
VpcUpdateRouter(r, name, authorized) ==
    /\ router[r].st # "none"
    /\ IF ~authorized
         THEN /\ called' = Called("vpc_update_router", r, FALSE,
                                  "Forbidden", {})
              /\ router' = router
         ELSE IF router[r].st # "live"
         THEN /\ called' = Called("vpc_update_router", r, TRUE,
                                  "ObjectNotFound", {})
              /\ router' = router
         ELSE IF RouterNameConflict(r, router[r].vpc_id, name)
         THEN /\ called' = Called("vpc_update_router", r, TRUE,
                                  "InternalError", {})
              /\ router' = router
         ELSE /\ called' = Called("vpc_update_router", r, TRUE, "Ok", {r})
              /\ router' = [router EXCEPT ![r].name = name]
    /\ UNCHANGED <<httpVars, load>>
    /\ UNCHANGED <<project, vpc, createVpc, deleteVpc, subnetVars, fwVars,
                   resolveVars, planningVars, route>>

\* vpc_router_route_list
VpcRouterRouteList(r, authorized) ==
    /\ called' = IF ~authorized
                   THEN Called("vpc_router_route_list", r, FALSE,
                               "Forbidden", {})
                   ELSE Called("vpc_router_route_list", r, TRUE, "Ok",
                               LiveRoutesOf(r))
    /\ UNCHANGED <<httpVars, load>>
    /\ UNCHANGED <<project, vpc, createVpc, deleteVpc, subnetVars, fwVars,
                   resolveVars, planningVars, router, route>>

\* router_create_route: a collection insert under the router, which bumps
\* the router's rcgen.  The variant is a plain insert: no check of the
\* parent row, no bump.
RouterCreateRoute_PlainInsert(id, r, name, authorized) ==
    /\ IF ~authorized
         THEN /\ called' = Called("router_create_route", r, FALSE,
                                  "Forbidden", {})
              /\ UNCHANGED <<router, route>>
         ELSE IF route[id].st # "none" \/ RouteNameConflict(id, r, name)
         THEN /\ called' = Called("router_create_route", r, TRUE,
                                  "ObjectAlreadyExists", {})
              /\ UNCHANGED <<router, route>>
         ELSE /\ called' = Called("router_create_route", r, TRUE, "Ok",
                                  {id})
              /\ route' = [route EXCEPT ![id] =
                              [st |-> "live", vpc_router_id |-> r,
                               name |-> name, time_deleted |-> 0]]
              /\ router' = router
    /\ UNCHANGED <<httpVars, load>>
    /\ UNCHANGED <<project, vpc, createVpc, deleteVpc, subnetVars, fwVars,
                   resolveVars, planningVars>>

RouterCreateRoute(id, r, name, authorized) ==
    /\ IF ~authorized
         THEN /\ called' = Called("router_create_route", r, FALSE,
                                  "Forbidden", {})
              /\ UNCHANGED <<router, route>>
         ELSE IF router[r].st # "live"
         THEN /\ called' = Called("router_create_route", r, TRUE,
                                  "ObjectNotFound", {})
              /\ UNCHANGED <<router, route>>
         ELSE IF route[id].st # "none" \/ RouteNameConflict(id, r, name)
         THEN /\ called' = Called("router_create_route", r, TRUE,
                                  "ObjectAlreadyExists", {})
              /\ UNCHANGED <<router, route>>
         ELSE /\ called' = Called("router_create_route", r, TRUE, "Ok",
                                  {id})
              /\ route' = [route EXCEPT ![id] =
                              [st |-> "live", vpc_router_id |-> r,
                               name |-> name, time_deleted |-> 0]]
              /\ router' = [router EXCEPT ![r].rcgen = @ + 1]
    /\ UNCHANGED <<httpVars, load>>
    /\ UNCHANGED <<project, vpc, createVpc, deleteVpc, subnetVars, fwVars,
                   resolveVars, planningVars>>

\* router_delete_route
RouterDeleteRoute(t, authorized) ==
    /\ route[t].st # "none"
    /\ IF ~authorized
         THEN /\ called' = Called("router_delete_route", t, FALSE,
                                  "Forbidden", {})
              /\ route' = route
         ELSE /\ called' = Called("router_delete_route", t, TRUE, "Ok", {})
              /\ route' = [x \in RouteIds |->
                              IF x = t /\ route[x].time_deleted = 0
                                THEN [route[x] EXCEPT
                                        !.st = "deleted",
                                        !.time_deleted = @ + 1]
                                ELSE route[x]]
    /\ UNCHANGED <<httpVars, load>>
    /\ UNCHANGED <<project, vpc, createVpc, deleteVpc, subnetVars, fwVars,
                   resolveVars, planningVars, router>>

\* router_update_route
RouterUpdateRoute(t, name, authorized) ==
    /\ route[t].st # "none"
    /\ IF ~authorized
         THEN /\ called' = Called("router_update_route", t, FALSE,
                                  "Forbidden", {})
              /\ route' = route
         ELSE IF route[t].st # "live"
         THEN /\ called' = Called("router_update_route", t, TRUE,
                                  "ObjectNotFound", {})
              /\ route' = route
         ELSE IF RouteNameConflict(t, route[t].vpc_router_id, name)
         THEN /\ called' = Called("router_update_route", t, TRUE,
                                  "InternalError", {})
              /\ route' = route
         ELSE /\ called' = Called("router_update_route", t, TRUE, "Ok", {t})
              /\ route' = [route EXCEPT ![t].name = name]
    /\ UNCHANGED <<httpVars, load>>
    /\ UNCHANGED <<project, vpc, createVpc, deleteVpc, subnetVars, fwVars,
                   resolveVars, planningVars, router>>

(***************************************************************************)
(* load_builtin_vpcs, statement by statement: the services VPC, its system *)
(* router, the default route, the firewall rules (one call of             *)
(* vpc_update_firewall_rules, whose transaction runs as LoadFwCall) and    *)
(* the built-in subnets.  before is history: the rows as the call found    *)
(* them.                                                                   *)
(***************************************************************************)
SERVICES_VPC_DEFAULT_ROUTE_ID == "t2"
ServicesRouterId == system_router_id(SERVICES_VPC_ID)

\* DNS_VPC_SUBNET and NEXUS_VPC_SUBNET: disjoint blocks of the services VPC.
BuiltinSubnetRow(k) ==
    SubnetRow(SERVICES_VPC_ID, BuiltinSubnetIds[k],
              [addr |-> k - 1, prefix |-> V4Bits],
              [addr |-> k - 1, prefix |-> V6Bits])

\* The live rules of the services VPC, as name and body.
ServicesRules ==
    {[name |-> fwrule[i].name, body |-> fwrule[i].body] :
        i \in LiveRulesOf(SERVICES_VPC_ID)}

Snapshot ==
    [vpc |-> vpc[SERVICES_VPC_ID],
     router |-> router[ServicesRouterId],
     route |-> route[SERVICES_VPC_DEFAULT_ROUTE_ID],
     subnets |-> [k \in DOMAIN BuiltinSubnetIds |->
                     subnet[BuiltinSubnetIds[k]]],
     rules |-> ServicesRules]

IdleLoad == [pc |-> "idle", authorized |-> TRUE, res |-> "", k |-> 1,
             before |-> [vpc |-> NoVpc, router |-> NoRouter,
                         route |-> NoRoute,
                         subnets |-> [k \in DOMAIN BuiltinSubnetIds |->
                                         NoSubnet],
                         rules |-> {}]]
NoLoad == load = IdleLoad

LoadDone(res) == [load EXCEPT !.pc = "done", !.res = res]

\* opctx.authorize on the database and the lookup of the services project.
LoadStart(authorized) ==
    /\ load.pc = "idle"
    /\ load' = IF ~authorized
                 THEN [LoadDone("Forbidden") EXCEPT
                          !.authorized = FALSE, !.before = Snapshot]
               ELSE IF project[SERVICES_PROJECT_ID] # "live"
                 THEN [LoadDone("ObjectNotFound(Project)") EXCEPT
                          !.before = Snapshot]
               ELSE [load EXCEPT !.pc = "vpc", !.before = Snapshot]
    /\ UNCHANGED <<project, vpc, createVpc, deleteVpc, subnetVars, fwVars,
                   resolveVars, planningVars, routerVars, httpVars>>

\* project_create_vpc_raw with new_system; ObjectAlreadyExists is success.
LoadVpc ==
    LET r == project_create_vpc_raw(TRUE, SERVICES_PROJECT_ID,
                                    SERVICES_VPC_ID, SERVICES_VPC_NAME,
                                    new_system_vni)
    IN /\ load.pc = "vpc"
       /\ vpc' = IF r.kind = "Some"
                   THEN [vpc EXCEPT ![SERVICES_VPC_ID] =
                           VpcRow(SERVICES_PROJECT_ID, SERVICES_VPC_NAME,
                                  r.vni)]
                   ELSE vpc
       /\ load' = IF r.kind = "None" THEN LoadDone("InternalError")
                  ELSE IF r.kind = "Err" /\ r.err # "ObjectAlreadyExists"
                    THEN LoadDone(r.err)
                  ELSE [load EXCEPT !.pc = "router"]
       /\ UNCHANGED <<project, createVpc, deleteVpc, subnetVars, fwVars,
                      resolveVars, planningVars, routerVars, httpVars>>

\* The lookup of the system router by id, which finds a live row.
LoadRouterLookup ==
    /\ load.pc = "router"
    /\ load' = [load EXCEPT !.pc = IF router[ServicesRouterId].st = "live"
                                     THEN "route" ELSE "router_create"]
    /\ UNCHANGED <<project, vpc, createVpc, deleteVpc, subnetVars, fwVars,
                   resolveVars, planningVars, routerVars, httpVars>>

\* vpc_create_router for the system router, when the lookup found none.
LoadRouterCreate ==
    LET id == ServicesRouterId
        res == IF router[id].st # "none" THEN "InternalError"
               ELSE IF RouterNameConflict(id, SERVICES_VPC_ID, "system")
                 THEN "ObjectAlreadyExists"
               ELSE "Ok"
    IN /\ load.pc = "router_create"
       /\ router' = IF res = "Ok"
                      THEN [router EXCEPT ![id] =
                              [st |-> "live", vpc_id |-> SERVICES_VPC_ID,
                               kind |-> "System", name |-> "system",
                               rcgen |-> 0, time_deleted |-> 0]]
                      ELSE router
       /\ load' = IF res = "Ok" THEN [load EXCEPT !.pc = "route"]
                  ELSE LoadDone(res)
       /\ UNCHANGED <<project, vpc, createVpc, deleteVpc, subnetVars, fwVars,
                      resolveVars, planningVars, route, called, httpVars>>

\* router_create_route for the default route; ObjectAlreadyExists is success.
LoadRoute ==
    LET id == SERVICES_VPC_DEFAULT_ROUTE_ID
        r == ServicesRouterId
        res == IF router[r].st # "live" THEN "ObjectNotFound"
               ELSE IF route[id].st # "none"
                       \/ RouteNameConflict(id, r, "default")
                 THEN "ObjectAlreadyExists"
               ELSE "Ok"
    IN /\ load.pc = "route"
       /\ route' = IF res = "Ok"
                     THEN [route EXCEPT ![id] =
                             [st |-> "live", vpc_router_id |-> r,
                              name |-> "default", time_deleted |-> 0]]
                     ELSE route
       /\ router' = IF res = "Ok" THEN [router EXCEPT ![r].rcgen = @ + 1]
                    ELSE router
       /\ load' = IF res \in {"Ok", "ObjectAlreadyExists"}
                    THEN [load EXCEPT !.pc = "fw_rules"]
                    ELSE LoadDone(res)
       /\ UNCHANGED <<project, vpc, createVpc, deleteVpc, subnetVars, fwVars,
                      resolveVars, planningVars, called, httpVars>>

\* load_builtin_vpc_fw_rules up to its call of vpc_update_firewall_rules:
\* the live rules by name, each built-in name added where it is absent, in
\* the order of the names.
\* The variant puts the built-in rule under its name whether or not a rule
\* has the name.
fw_rules_Overwrite ==
    {r \in ServicesRules : r.name \notin BuiltinRuleNames} \cup
    {[name |-> n, body |-> "builtin"] : n \in BuiltinRuleNames}

fw_rules ==
    ServicesRules \cup
    {[name |-> n, body |-> "builtin"] :
        n \in {m \in BuiltinRuleNames :
                 ~\E r \in ServicesRules : r.name = m}}

LoadFwRules ==
    LET rules == OrderByName(fw_rules)
    IN /\ load.pc = "fw_rules"
       /\ Len(rules) <= MaxLoadRules
       /\ updateFw[LoadFwCall].pc = "idle"
       /\ IF vpc[SERVICES_VPC_ID].st # "live"
            THEN /\ load' = LoadDone("ObjectNotFound(Vpc)")
                 /\ updateFw' = updateFw
            ELSE /\ load' = [load EXCEPT !.pc = "fw_update"]
                 /\ updateFw' = [updateFw EXCEPT ![LoadFwCall] =
                        [IdleUpdateFw EXCEPT
                            !.pc = "delete_old",
                            !.vpc_id = SERVICES_VPC_ID,
                            !.given = [k \in DOMAIN rules |-> rules[k].name],
                            !.bodies = [k \in DOMAIN rules |->
                                           rules[k].body]]]
       /\ UNCHANGED <<project, vpc, createVpc, deleteVpc, subnetVars, fwrule,
                      deleteAllFw, resolveVars, planningVars, routerVars,
                      httpVars>>

\* The return of vpc_update_firewall_rules, then the lookup of the services
\* VPC that load_builtin_vpc_subnets starts with.
LoadFwReturn ==
    LET call == updateFw[LoadFwCall]
    IN /\ load.pc = "fw_update"
       /\ call.pc = "done"
       /\ load' = IF call.res # "Ok" THEN LoadDone(call.res)
                  ELSE IF vpc[SERVICES_VPC_ID].st # "live"
                    THEN LoadDone("ObjectNotFound(Vpc)")
                  ELSE [load EXCEPT !.pc = "subnet_fetch", !.k = 1]
       /\ UNCHANGED <<project, vpc, createVpc, deleteVpc, subnetVars, fwVars,
                      resolveVars, planningVars, routerVars, httpVars>>

\* The next built-in subnet, or the end of the call.
LoadNextSubnet ==
    IF load.k < Len(BuiltinSubnetIds)
      THEN [load EXCEPT !.pc = "subnet_fetch", !.k = @ + 1]
      ELSE LoadDone("Ok")

\* The fetch of the k-th built-in subnet by id: a live row is left alone.
LoadSubnetFetch ==
    /\ load.pc = "subnet_fetch"
    /\ load' = IF subnet[BuiltinSubnetIds[load.k]].st = "live"
                 THEN LoadNextSubnet
                 ELSE [load EXCEPT !.pc = "subnet_create"]
    /\ UNCHANGED <<project, vpc, createVpc, deleteVpc, subnetVars, fwVars,
                   resolveVars, planningVars, routerVars, httpVars>>

\* vpc_create_subnet for the k-th built-in subnet; ObjectAlreadyExists is
\* success.
LoadSubnetCreate ==
    LET id == BuiltinSubnetIds[load.k]
        row == BuiltinSubnetRow(load.k)
        res == vpc_create_subnet_raw(id, row)
    IN /\ load.pc = "subnet_create"
       /\ subnet' = IF res = "Ok" THEN [subnet EXCEPT ![id] = row]
                    ELSE subnet
       /\ load' = IF res \in {"Ok", "ObjectAlreadyExists"}
                    THEN LoadNextSubnet
                    ELSE LoadDone(res)
       /\ UNCHANGED <<project, vpc, createVpc, deleteVpc, createSubnet,
                      deleteSubnet, fwVars, resolveVars, planningVars,
                      routerVars, httpVars>>

(***************************************************************************)
(* HttpRouter: a trie whose edges are path segments.  A node is named by   *)
(* the sequence of edges that leads to it from the root; strings are       *)
(* sequences of characters.                                                *)
(***************************************************************************)
Methods == {"GET", "PUT"}
Handlers == {"h1", "h2"}
MaxPathLen == 5

Str(S, n) == UNION {[1..k -> S] : k \in 0..n}

\* The paths of requests: path-absolute references of literal characters.
LookupPaths ==
    {p \in Str({"/", "f", "b"}, MaxPathLen) :
        /\ Len(p) >= 1
        /\ p[1] = "/"
        /\ Len(p) >= 2 => p[2] # "/"}

\* The paths routes are registered for: /f/b, /f, /b/{v}, /{v}.
InsertPaths ==
    {<<"/", "f", "/", "b">>, <<"/", "f">>,
     <<"/", "b", "/", "{", "v", "}">>, <<"/", "{", "v", "}">>}

\* str::split('/') as Url::path_segments applies it to the path after its
\* first '/': every '/' ends a segment, an empty one included.
RECURSIVE SplitSlash(_)
SplitSlash(cs) ==
    IF \A i \in DOMAIN cs : cs[i] # "/" THEN <<cs>>
    ELSE LET i == CHOOSE i \in DOMAIN cs :
                      cs[i] = "/" /\ \A j \in 1..(i - 1) : cs[j] # "/"
         IN <<SubSeq(cs, 1, i - 1)>> \o SplitSlash(SubSeq(cs, i + 1, Len(cs)))

\* The URL parser's percent-encoding of a path segment: braces are in the
\* path percent-encode set.
RECURSIVE PercentEncode(_)
PercentEncode(cs) ==
    IF cs = << >> THEN << >>
    ELSE (CASE cs[1] = "{" -> <<"%", "7", "B">>
            [] cs[1] = "}" -> <<"%", "7", "D">>
            [] OTHER -> <<cs[1]>>) \o PercentEncode(Tail(cs))

\* HttpRouter::path_to_segments, for a path-absolute reference joined to
\* the base http://127.0.0.1/.
path_to_segments(path) ==
    LET segments == SplitSlash(Tail(path))
    IN [k \in DOMAIN segments |-> PercentEncode(segments[k])]

\* PathSegment::from
PathSegment_from(segment) ==
    IF \/ Len(segment) < 7
       \/ SubSeq(segment, 1, 3) # <<"%", "7", "B">>
       \/ SubSeq(segment, Len(segment) - 2, Len(segment)) # <<"%", "7", "D">>
      THEN [kind |-> "Literal", name |-> segment]
      ELSE [kind |-> "Varname",
            name |-> SubSeq(segment, 4, Len(segment) - 3)]

\* HttpRouter::new
HttpRouter_new == [nodes |-> {<< >>}, method_handlers |-> {}, panicked |-> ""]

\* node.edges_literals and node.edge_varname
edges_literals(r, node) ==
    {n \in r.nodes : /\ Len(n) = Len(node) + 1
                     /\ SubSeq(n, 1, Len(node)) = node
                     /\ n[Len(n)].kind = "Literal"}
edge_varname(r, node) ==
    {n \in r.nodes : /\ Len(n) = Len(node) + 1
                     /\ SubSeq(n, 1, Len(node)) = node
                     /\ n[Len(n)].kind = "Varname"}

\* The loop of HttpRouter::insert over the segments left, at node, with the
\* variable names used so far: the router it leaves and the node reached.
RECURSIVE InsertWalk(_, _, _, _)
InsertWalk(r, node, segments, varnames) ==
    IF segments = << >> THEN [r |-> r, node |-> node]
    ELSE
      LET segment == PathSegment_from(Head(segments))
          child == Append(node, segment)
      IN IF segment.kind = "Literal"
           THEN IF edge_varname(r, node) # {}
                  THEN [r |-> [r EXCEPT !.panicked = "literal after variable"],
                        node |-> node]
                  ELSE InsertWalk([r EXCEPT !.nodes = @ \cup {child}], child,
                                  Tail(segments), varnames)
         ELSE IF edges_literals(r, node) # {}
           THEN [r |-> [r EXCEPT !.panicked = "variable after literal"],
                 node |-> node]
         ELSE IF segment.name \in varnames
           THEN [r |-> [r EXCEPT !.panicked = "variable used twice"],
                 node |-> node]
         ELSE IF edge_varname(r, node) \notin {{}, {child}}
           THEN [r |-> [r EXCEPT !.panicked = "different variable name"],
                 node |-> node]
         ELSE InsertWalk([r EXCEPT !.nodes = @ \cup {child}], child,
                         Tail(segments), varnames \cup {segment.name})

\* HttpRouter::insert
HttpRouter_insert(r, method, path, handler) ==
    LET walked == InsertWalk(r, << >>, path_to_segments(path), {})
    IN IF walked.r.panicked # "" THEN walked.r
       ELSE IF \E h \in walked.r.method_handlers :
                  h.node = walked.node /\ h.method = method
         THEN [walked.r EXCEPT !.panicked = "duplicate route"]
       ELSE [walked.r EXCEPT !.method_handlers =
                @ \cup {[node |-> walked.node, method |-> method,
                         handler |-> handler]}]

\* The loop of HttpRouter::lookup_route over the segments left.
RECURSIVE LookupWalk(_, _, _, _)
LookupWalk(r, node, segments, variables) ==
    IF segments = << >> THEN [found |-> TRUE, node |-> node,
                             variables |-> variables]
    ELSE
      LET lit == Append(node, [kind |-> "Literal", name |-> Head(segments)])
      IN IF lit \in r.nodes
           THEN LookupWalk(r, lit, Tail(segments), variables)
         ELSE IF edge_varname(r, node) # {}
           THEN LET edge == CHOOSE n \in edge_varname(r, node) : TRUE
                    varname == edge[Len(edge)].name
                IN LookupWalk(r, edge, Tail(segments),
                              {b \in variables : b[1] # varname}
                                \cup {<<varname, Head(segments)>>})
         ELSE [found |-> FALSE, node |-> node, variables |-> {}]

\* HttpRouter::lookup_route
lookup_route(r, method, path) ==
    LET walked == LookupWalk(r, << >>, path_to_segments(path), {})
    IN IF ~walked.found
         THEN [result |-> "NOT_FOUND", handler |-> "", variables |-> {}]
       ELSE IF \E h \in r.method_handlers :
                  h.node = walked.node /\ h.method = method
         THEN [result |-> "Ok",
               handler |-> (CHOOSE h \in r.method_handlers :
                               h.node = walked.node /\ h.method = method)
                             .handler,
               variables |-> walked.variables]
       ELSE [result |-> "METHOD_NOT_ALLOWED", handler |-> "",
             variables |-> {}]

NotLookedUp == [method |-> "", path |-> << >>,
                out |-> [result |-> "", handler |-> "", variables |-> {}]]

NoHttp ==
    /\ httpRouter = HttpRouter_new
    /\ lookup = NotLookedUp

\* A call of insert during server initialization; a panic ends the process.
Insert(method, path, handler) ==
    /\ httpRouter.panicked = ""
    /\ httpRouter' = HttpRouter_insert(httpRouter, method, path, handler)
    /\ lookup' = lookup
    /\ UNCHANGED <<planningVars, routerVars, load>>
    /\ UNCHANGED <<project, vpc, createVpc, deleteVpc, subnetVars, fwVars,
                   resolveVars>>

\* A call of lookup_route for a request.
LookupRoute(method, path) ==
    /\ httpRouter.panicked = ""
    /\ lookup' = [method |-> method, path |-> path,
                  out |-> lookup_route(httpRouter, method, path)]
    /\ httpRouter' = httpRouter
    /\ UNCHANGED <<planningVars, routerVars, load>>
    /\ UNCHANGED <<project, vpc, createVpc, deleteVpc, subnetVars, fwVars,
                   resolveVars>>

(***************************************************************************)
(* Sled and zone filters.                                                  *)
(***************************************************************************)
SledPolicies ==
    {"InServiceProvisionable", "InServiceNonProvisionable", "Expunged"}
SledStates == {"Active", "Decommissioned"}
SledFilters ==
    {"Commissioned", "Decommissioned", "Discretionary", "InService",
     "QueryDuringInventory", "ReservationCreate", "VpcFirewall"}
Dispositions == {"InService", "Quiesced", "Expunged"}

\* The variant sends firewall rules to provisionable sleds only.
SledPolicy_matches_ProvisionableOnly(policy, filter) ==
    IF policy = "InServiceProvisionable"
      THEN filter \in {"Commissioned", "Discretionary", "InService",
                       "QueryDuringInventory", "ReservationCreate",
                       "VpcFirewall"}
    ELSE IF policy = "InServiceNonProvisionable"
      THEN filter \in {"Commissioned", "InService", "QueryDuringInventory"}
    ELSE filter \in {"Commissioned", "Decommissioned"}

SledPolicy_matches(policy, filter) ==
    IF policy = "InServiceProvisionable"
      THEN filter \in {"Commissioned", "Discretionary", "InService",
                       "QueryDuringInventory", "ReservationCreate",
                       "VpcFirewall"}
    ELSE IF policy = "InServiceNonProvisionable"
      THEN filter \in {"Commissioned", "InService", "QueryDuringInventory",
                       "VpcFirewall"}
    ELSE filter \in {"Commissioned", "Decommissioned"}

\* The variant lets a decommissioned sled match what an active one matches.
SledState_matches_AnyState(state, filter) ==
    filter \in {"Commissioned", "Discretionary", "InService",
                "QueryDuringInventory", "ReservationCreate", "VpcFirewall"}

SledState_matches(state, filter) ==
    IF state = "Active"
      THEN filter \in {"Commissioned", "Discretionary", "InService",
                       "QueryDuringInventory", "ReservationCreate",
                       "VpcFirewall"}
    ELSE filter \in {"Decommissioned"}

\* The variant asks the policy only.
matches_policy_and_state_PolicyOnly(filter, policy, state) ==
    SledPolicy_matches(policy, filter)

matches_policy_and_state(filter, policy, state) ==
    SledPolicy_matches(policy, filter) /\ SledState_matches(state, filter)

SledPolicy_all_matching(filter) ==
    {policy \in SledPolicies : SledPolicy_matches(policy, filter)}

SledState_all_matching(filter) ==
    {state \in SledStates : SledState_matches(state, filter)}

\* The query form of a sled filter: the row's policy and state are among
\* those matching the filter.
sled_filter(row, filter) ==
    /\ row.policy \in SledPolicy_all_matching(filter)
    /\ row.state \in SledState_all_matching(filter)

\* BlueprintZoneFilter::ShouldDeployVpcFirewallRules on a zone's disposition.
blueprint_zone_filter(disposition) == disposition \in {"InService", "Quiesced"}

(***************************************************************************)
(* PlanningInputBuilder and PlanningInput.  planning_input.sleds maps the  *)
(* sleds added so far to their SledDetails [policy, state, resources], and *)
(* resources.zpools maps the sled's zpools to their SledDisk [policy,      *)
(* state].  planned records the last call and what it returned.            *)
(***************************************************************************)
PhysicalDiskPolicies == {"InService", "Expunged"}
PhysicalDiskStates == {"Active", "Decommissioned"}
DiskFilters == {"All", "InService"}
ZpoolFilters == {"All", "InService"}
ZpoolIds == {"zp1", "zp2"}

\* The variant takes the policy alone.
DiskFilter_matches_policy_and_state_PolicyOnly(filter, policy, state) ==
    IF filter = "All" THEN TRUE
    ELSE policy = "InService"

DiskFilter_matches_policy_and_state(filter, policy, state) ==
    IF filter = "All" THEN TRUE
    ELSE IF policy = "InService" /\ state = "Active" THEN TRUE
    ELSE FALSE

ZpoolFilter_matches_policy_and_state(filter, policy, state) ==
    IF filter = "All" THEN TRUE
    ELSE IF policy = "InService" /\ state = "Active" THEN TRUE
    ELSE FALSE

\* SledDisk::provisionable
provisionable(disk) ==
    DiskFilter_matches_policy_and_state("InService", disk.policy, disk.state)

\* SledResources::zpool_is_provisionable, all_zpools and all_disks
zpool_is_provisionable(resources, zpool) ==
    IF zpool \notin DOMAIN resources.zpools THEN FALSE
    ELSE provisionable(resources.zpools[zpool])

all_zpools(resources, filter) ==
    {zpool \in DOMAIN resources.zpools :
        ZpoolFilter_matches_policy_and_state(
            filter, resources.zpools[zpool].policy,
            resources.zpools[zpool].state)}

all_disks(resources, filter) ==
    {<<zpool, resources.zpools[zpool]>> : zpool \in
        {z \in DOMAIN resources.zpools :
            DiskFilter_matches_policy_and_state(
                filter, resources.zpools[z].policy,
                resources.zpools[z].state)}}

\* The variant takes the policy alone.
all_sleds_PolicyOnly(filter) ==
    {<<sled_id, planning_input.sleds[sled_id]>> : sled_id \in
        {i \in DOMAIN planning_input.sleds :
            SledPolicy_matches(planning_input.sleds[i].policy, filter)}}

\* PlanningInput::all_sleds
all_sleds(filter) ==
    {<<sled_id, planning_input.sleds[sled_id]>> : sled_id \in
        {i \in DOMAIN planning_input.sleds :
            matches_policy_and_state(filter, planning_input.sleds[i].policy,
                                     planning_input.sleds[i].state)}}

NotPlanned == [op |-> "", sled_id |-> "", zpool |-> "", filter |-> "",
               policy |-> "", state |-> "", result |-> FALSE]

NoPlanning ==
    /\ planning_input = [sleds |-> << >>]
    /\ planned = NotPlanned

\* PlanningInputBuilder::add_sled
add_sled(sled_id, details) ==
    /\ IF sled_id \notin DOMAIN planning_input.sleds
         THEN /\ planning_input' =
                   [planning_input EXCEPT !.sleds =
                       [i \in DOMAIN planning_input.sleds \cup {sled_id} |->
                          IF i = sled_id THEN details
                          ELSE planning_input.sleds[i]]]
              /\ planned' = [NotPlanned EXCEPT !.op = "add_sled",
                                !.sled_id = sled_id, !.result = "Ok"]
         ELSE /\ planning_input' = planning_input
              /\ planned' = [NotPlanned EXCEPT !.op = "add_sled",
                                !.sled_id = sled_id,
                                !.result = "DuplicateSledId"]
    /\ UNCHANGED <<httpVars, load>>
    /\ UNCHANGED <<project, vpc, createVpc, deleteVpc, subnetVars, fwVars,
                   resolveVars, routerVars>>

\* A call of PlanningInput::all_sleds(filter).
AllSleds(filter) ==
    /\ planned' = [NotPlanned EXCEPT !.op = "all_sleds", !.filter = filter,
                                     !.result = all_sleds(filter)]
    /\ UNCHANGED <<httpVars, load>>
    /\ UNCHANGED <<project, vpc, createVpc, deleteVpc, subnetVars, fwVars,
                   resolveVars, routerVars, planning_input>>

\* Calls of policy.matches(filter), state.matches(filter) and
\* filter.matches_policy_and_state(policy, state).
SledMatches(policy, state, filter) ==
    /\ planned' =
          [NotPlanned EXCEPT !.op = "matches", !.filter = filter,
              !.policy = policy, !.state = state,
              !.result =
                 [policy |-> SledPolicy_matches(policy, filter),
                  state |-> SledState_matches(state, filter),
                  both |-> matches_policy_and_state(filter, policy, state)]]
    /\ UNCHANGED <<httpVars, load>>
    /\ UNCHANGED <<project, vpc, createVpc, deleteVpc, subnetVars, fwVars,
                   resolveVars, routerVars, planning_input>>

\* Calls on the resources of a sled of the planning input
\* (PlanningInput::sled_resources).
ZpoolIsProvisionable(sled_id, zpool) ==
    /\ sled_id \in DOMAIN planning_input.sleds
    /\ planned' =
          [NotPlanned EXCEPT !.op = "zpool_is_provisionable",
              !.sled_id = sled_id, !.zpool = zpool,
              !.result = zpool_is_provisionable(
                            planning_input.sleds[sled_id].resources, zpool)]
    /\ UNCHANGED <<httpVars, load>>
    /\ UNCHANGED <<project, vpc, createVpc, deleteVpc, subnetVars, fwVars,
                   resolveVars, routerVars, planning_input>>

AllZpools(sled_id, filter) ==
    /\ sled_id \in DOMAIN planning_input.sleds
    /\ planned' =
          [NotPlanned EXCEPT !.op = "all_zpools", !.sled_id = sled_id,
              !.filter = filter,
              !.result = all_zpools(planning_input.sleds[sled_id].resources,
                                    filter)]
    /\ UNCHANGED <<httpVars, load>>
    /\ UNCHANGED <<project, vpc, createVpc, deleteVpc, subnetVars, fwVars,
                   resolveVars, routerVars, planning_input>>

AllDisks(sled_id, filter) ==
    /\ sled_id \in DOMAIN planning_input.sleds
    /\ planned' =
          [NotPlanned EXCEPT !.op = "all_disks", !.sled_id = sled_id,
              !.filter = filter,
              !.result = all_disks(planning_input.sleds[sled_id].resources,
                                   filter)]
    /\ UNCHANGED <<httpVars, load>>
    /\ UNCHANGED <<project, vpc, createVpc, deleteVpc, subnetVars, fwVars,
                   resolveVars, routerVars, planning_input>>

(***************************************************************************)
(* vpc_resolve_to_sleds(vpc_id, sleds_filter).  A query's result is the     *)
(* bag of the sled ids of its rows.                                        *)
(***************************************************************************)
SledBag(rows) ==
    [s \in {r[4] : r \in rows} |-> Cardinality({r \in rows : r[4] = s})]

\* The variant does not require the VMM to be live.
instance_query_AnyVmm(vpc_id) ==
    SledBag({r \in InicIds \X InstanceIds \X VmmIds \X (DOMAIN sled) :
        /\ inic[r[1]].st # "none" /\ instance[r[2]].st # "none"
        /\ vmm[r[3]].st # "none" /\ sled[r[4]].st # "none"
        /\ inic[r[1]].instance_id = r[2]
        /\ instance[r[2]].active_propolis_id = r[3]
        /\ vmm[r[3]].sled_id = r[4]
        /\ inic[r[1]].vpc_id = vpc_id
        /\ inic[r[1]].st = "live"
        /\ instance[r[2]].st = "live"})

instance_query(vpc_id) ==
    SledBag({r \in InicIds \X InstanceIds \X VmmIds \X (DOMAIN sled) :
        /\ inic[r[1]].st # "none" /\ instance[r[2]].st # "none"
        /\ vmm[r[3]].st # "none" /\ sled[r[4]].st # "none"
        /\ inic[r[1]].instance_id = r[2]
        /\ instance[r[2]].active_propolis_id = r[3]
        /\ vmm[r[3]].sled_id = r[4]
        /\ inic[r[1]].vpc_id = vpc_id
        /\ inic[r[1]].st = "live"
        /\ instance[r[2]].st = "live"
        /\ vmm[r[3]].st = "live"})

\* ORDER BY version DESC LIMIT 1 over bp_target.
MaxTargetVersion ==
    {t.version : t \in {t \in bp_target :
                          \A o \in bp_target : o.version <= t.version}}

\* The variant joins every bp_target row.
service_query_AnyTarget(vpc_id) ==
    SledBag({r \in (DOMAIN snic) \X bp_omicron_zone \X bp_target \X (DOMAIN sled) :
        /\ snic[r[1]].st # "none" /\ sled[r[4]].st # "none"
        /\ r[2].id = snic[r[1]].service_id
        /\ r[2].blueprint_id = r[3].blueprint_id
        /\ r[4] = r[2].sled_id
        /\ blueprint_zone_filter(r[2].disposition)
        /\ snic[r[1]].vpc_id = vpc_id
        /\ snic[r[1]].st = "live"})

\* The query over a bp_target table with the rows targets.  The variant
\* also requires the target row to be enabled.
MaxTargetVersionOf(targets) ==
    {t.version : t \in {t \in targets :
                          \A o \in targets : o.version <= t.version}}

service_query_on_EnabledOnly(targets, vpc_id) ==
    SledBag({r \in (DOMAIN snic) \X bp_omicron_zone \X targets \X (DOMAIN sled) :
        /\ snic[r[1]].st # "none" /\ sled[r[4]].st # "none"
        /\ r[2].id = snic[r[1]].service_id
        /\ r[2].blueprint_id = r[3].blueprint_id
        /\ r[4] = r[2].sled_id
        /\ r[3].version \in MaxTargetVersionOf(targets)
        /\ r[3].enabled
        /\ blueprint_zone_filter(r[2].disposition)
        /\ snic[r[1]].vpc_id = vpc_id
        /\ snic[r[1]].st = "live"})

service_query_on(targets, vpc_id) ==
    SledBag({r \in (DOMAIN snic) \X bp_omicron_zone \X targets \X (DOMAIN sled) :
        /\ snic[r[1]].st # "none" /\ sled[r[4]].st # "none"
        /\ r[2].id = snic[r[1]].service_id
        /\ r[2].blueprint_id = r[3].blueprint_id
        /\ r[4] = r[2].sled_id
        /\ r[3].version \in MaxTargetVersionOf(targets)
        /\ blueprint_zone_filter(r[2].disposition)
        /\ snic[r[1]].vpc_id = vpc_id
        /\ snic[r[1]].st = "live"})

\* The variant leaves out the zone filter.
service_query_NoZoneFilter(vpc_id) ==
    SledBag({r \in (DOMAIN snic) \X bp_omicron_zone \X bp_target \X (DOMAIN sled) :
        /\ snic[r[1]].st # "none" /\ sled[r[4]].st # "none"
        /\ r[2].id = snic[r[1]].service_id
        /\ r[2].blueprint_id = r[3].blueprint_id
        /\ r[4] = r[2].sled_id
        /\ r[3].version \in MaxTargetVersion
        /\ snic[r[1]].vpc_id = vpc_id
        /\ snic[r[1]].st = "live"})

service_query(vpc_id) == service_query_on(bp_target, vpc_id)

\* The variant filters the sleds by policy only.
sleds_PolicyOnly(sleds_filter) ==
    SetToBag({s \in DOMAIN sled :
        /\ sled[s].st = "live"
        /\ sled[s].policy \in SledPolicy_all_matching("VpcFirewall")
        /\ sleds_filter # {} => s \in sleds_filter})

sleds(sleds_filter) ==
    SetToBag({s \in DOMAIN sled :
        /\ sled[s].st = "live"
        /\ sled_filter(sled[s], "VpcFirewall")
        /\ sleds_filter # {} => s \in sleds_filter})

\* UNION and INTERSECT keep one copy of each row.
Union(a, b) == SetToBag(BagToSet(a) \cup BagToSet(b))
Intersect(a, b) == SetToBag(BagToSet(a) \cap BagToSet(b))

vpc_resolve_to_sleds(vpc_id, sleds_filter) ==
    Intersect(sleds(sleds_filter),
              Union(instance_query(vpc_id), service_query(vpc_id)))

NotResolved == [vpc_id |-> "", sleds_filter |-> {}, result |-> EmptyBag,
                authorized |-> TRUE]

\* A call by a caller for whom an authorization check on the VPC would pass
\* or not: the method takes no operation context and makes no check.
ResolveBy(authorized, vpc_id, sleds_filter) ==
    /\ resolved' = [vpc_id |-> vpc_id, sleds_filter |-> sleds_filter,
                    result |-> vpc_resolve_to_sleds(vpc_id, sleds_filter),
                    authorized |-> authorized]
    /\ UNCHANGED <<planningVars, routerVars, httpVars, load>>
    /\ UNCHANGED <<project, vpc, createVpc, deleteVpc, subnetVars, fwVars,
                   sled, instance, vmm, inic, snic, bp_omicron_zone,
                   bp_target>>

Resolve(vpc_id, sleds_filter) == ResolveBy(TRUE, vpc_id, sleds_filter)

\* blueprint_target_set_current: the new target gets the next version.
blueprint_target_set_current(b, enabled) ==
    /\ Cardinality(bp_target) < MaxTargets
    /\ bp_target' = bp_target \cup
           {[version |-> Cardinality(bp_target) + 1, blueprint_id |-> b,
             enabled |-> enabled]}
    /\ UNCHANGED <<planningVars, routerVars, httpVars, load>>
    /\ UNCHANGED <<project, vpc, createVpc, deleteVpc, subnetVars, fwVars,
                   sled, instance, vmm, inic, snic, bp_omicron_zone,
                   resolved>>

EligibleSled == [st |-> "live", policy |-> "InServiceProvisionable",
                 state |-> "Active"]
NoInstance == [st |-> "none", active_propolis_id |-> "NULL"]
NoVmm == [st |-> "none", sled_id |-> "sA"]
NoInic == [st |-> "none", vpc_id |-> "e1", subnet_id |-> "x1",
           instance_id |-> "i1"]
NoSnic == [st |-> "none", vpc_id |-> "e1", subnet_id |-> "x1",
           service_id |-> "z1"]

\* instance_create_network_interface: a collection insert of the NIC under
\* its subnet, which bumps the subnet's rcgen; nothing is inserted under a
\* subnet that is not live.
InstanceNicCreate(n, s) ==
    /\ inic[n].st = "none"
    /\ subnet[s].st = "live"
    /\ instance[NoInic.instance_id].st = "live"
    /\ inic' = [inic EXCEPT ![n] =
                  [NoInic EXCEPT !.st = "live", !.vpc_id = subnet[s].vpc_id,
                                 !.subnet_id = s]]
    /\ subnet' = [subnet EXCEPT ![s].rcgen = @ + 1]
    /\ UNCHANGED <<planningVars, routerVars, httpVars, load>>
    /\ UNCHANGED <<project, vpc, createVpc, deleteVpc, createSubnet,
                   deleteSubnet, fwVars, sled, instance, vmm, snic,
                   bp_omicron_zone, bp_target, resolved>>

InstanceNicDelete(n) ==
    /\ inic[n].st = "live"
    /\ inic' = [inic EXCEPT ![n].st = "deleted"]
    /\ UNCHANGED <<planningVars, routerVars, httpVars, load>>
    /\ UNCHANGED <<project, vpc, createVpc, deleteVpc, subnetVars, fwVars,
                   sled, instance, vmm, snic, bp_omicron_zone, bp_target,
                   resolved>>

\* service_create_network_interface_raw and
\* service_delete_network_interface, for the NIC of a zone.
ServiceNicCreate(n, v, z) ==
    /\ snic[n].st = "none"
    /\ snic' = [snic EXCEPT ![n] =
                  [NoSnic EXCEPT !.st = "live", !.vpc_id = v,
                                 !.service_id = z]]
    /\ UNCHANGED <<planningVars, routerVars, httpVars, load>>
    /\ UNCHANGED <<project, vpc, createVpc, deleteVpc, subnetVars, fwVars,
                   sled, instance, vmm, inic, bp_omicron_zone, bp_target,
                   resolved>>

ServiceNicDelete(n) ==
    /\ snic[n].st = "live"
    /\ snic' = [snic EXCEPT ![n].st = "deleted"]
    /\ UNCHANGED <<planningVars, routerVars, httpVars, load>>
    /\ UNCHANGED <<project, vpc, createVpc, deleteVpc, subnetVars, fwVars,
                   sled, instance, vmm, inic, bp_omicron_zone, bp_target,
                   resolved>>

\* Writes of a sled's policy and of its state.
SledSetPolicy(s, policy) ==
    /\ sled[s].st = "live"
    /\ sled' = [sled EXCEPT ![s].policy = policy]
    /\ UNCHANGED <<planningVars, routerVars, httpVars, load>>
    /\ UNCHANGED <<project, vpc, createVpc, deleteVpc, subnetVars, fwVars,
                   instance, vmm, inic, snic, bp_omicron_zone, bp_target,
                   resolved>>

SledSetState(s, state) ==
    /\ sled[s].st = "live"
    /\ sled' = [sled EXCEPT ![s].state = state]
    /\ UNCHANGED <<planningVars, routerVars, httpVars, load>>
    /\ UNCHANGED <<project, vpc, createVpc, deleteVpc, subnetVars, fwVars,
                   instance, vmm, inic, snic, bp_omicron_zone, bp_target,
                   resolved>>

NoResolve ==
    /\ sled = [s \in SledIds |-> EligibleSled]
    /\ instance = [i \in InstanceIds |-> NoInstance]
    /\ vmm = [m \in VmmIds |-> NoVmm]
    /\ inic = [n \in InicIds |-> NoInic]
    /\ snic = [n \in SnicIds |-> NoSnic]
    /\ bp_omicron_zone = {}
    /\ bp_target = {}
    /\ resolved = NotResolved

(***************************************************************************)
(* The VNI allocator's specification: some VPCs exist, with distinct       *)
(* VNIs; create and delete calls run concurrently.                         *)
(***************************************************************************)
RECURSIVE SeqOfSet(_)
SeqOfSet(S) == IF S = {} THEN << >>
               ELSE <<Min(S)>> \o SeqOfSet(S \ {Min(S)})

InitVni ==
    /\ project = [p \in ProjectIds |-> "live"]
    /\ \E occ \in {MIN_GUEST_VNI..k : k \in (MIN_GUEST_VNI - 1)..MAX_VNI} :
          vpc = [i \in VpcIds |->
                   IF \E k \in 1..Cardinality(occ) : ExistingVpcIds[k] = i
                     THEN LET k == CHOOSE k \in 1..Cardinality(occ) :
                                       ExistingVpcIds[k] = i
                          IN VpcRow("p1", i, SeqOfSet(occ)[k])
                     ELSE NoVpc]
    /\ createVpc = [c \in CreateVpcCalls |-> IdleCreate]
    /\ NoPlanning
    /\ NoHttp
    /\ NoLoad
    /\ NoRouters
    /\ deleteVpc = [d \in DeleteVpcCalls |-> IdleDelete]
    /\ NoSubnets
    /\ NoFw
    /\ NoResolve

NextVniSpec ==
    \/ \E c \in CreateVpcCalls, p \in Projects, n \in Names,
          seed \in Seeds, a \in BOOLEAN : CreateVpcStart(c, p, n, seed, a)
    \/ \E c \in CreateVpcCalls : CreateVpcAttempt(c)
    \/ \E d \in DeleteVpcCalls, v \in VpcIds : DeleteVpcStart(d, v, TRUE)
    \/ \E d \in DeleteVpcCalls : DeleteVpcCheck(d)
    \/ \E d \in DeleteVpcCalls : DeleteVpcUpdate(d)
    \/ \E p \in Projects : ProjectSoftDelete(p)

SpecVni == InitVni /\ [][NextVniSpec]_vars

\* The runtime keeps polling a call that can take a step: a loop iteration
\* of a started create call is eventually run.
SpecVniFair ==
    SpecVni /\ \A c \in CreateVpcCalls : WF_vars(CreateVpcAttempt(c))

(***************************************************************************)
(* The built-in VPC's specification: the services VPC is loaded, any       *)
(* number of times, while a create call and a delete call run.             *)
(***************************************************************************)
InitBuiltin ==
    /\ InitVni
    /\ vpc[SERVICES_VPC_ID].st = "none"

NextBuiltin ==
    \/ \E a \in BOOLEAN : LoadBuiltinVpcs(a)
    \/ \E p \in Projects, n \in Names, seed \in Seeds :
          CreateVpcStart("c1", p, n, seed, TRUE)
    \/ CreateVpcAttempt("c1")
    \/ \E d \in DeleteVpcCalls, v \in VpcIds : DeleteVpcStart(d, v, TRUE)
    \/ \E d \in DeleteVpcCalls : DeleteVpcCheck(d)
    \/ \E d \in DeleteVpcCalls : DeleteVpcUpdate(d)

SpecBuiltin == InitBuiltin /\ [][NextBuiltin]_vars

(***************************************************************************)
(* The subnet specification: two live VPCs; subnet create and delete calls *)
(* and a VPC delete call run concurrently.                                 *)
(***************************************************************************)
InitSubnet ==
    /\ project = [p \in ProjectIds |-> "live"]
    /\ vpc = [i \in VpcIds |->
                IF i = "e1" THEN VpcRow("p1", "a", MIN_GUEST_VNI)
                ELSE IF i = "e2" THEN VpcRow("p1", "b", MIN_GUEST_VNI + 1)
                ELSE NoVpc]
    /\ createVpc = [c \in CreateVpcCalls |-> IdleCreate]
    /\ NoPlanning
    /\ NoHttp
    /\ NoLoad
    /\ NoRouters
    /\ deleteVpc = [d \in DeleteVpcCalls |-> IdleDelete]
    /\ \E l \in {0, 1} :
          subnet = [i \in SubnetIds |->
                      IF i \in ExistingSubnetIds
                        THEN SubnetRow("e1", "a", [addr |-> 0, prefix |-> l],
                                       [addr |-> 0, prefix |-> l])
                        ELSE NoSubnet]
    /\ createSubnet = [i \in CreateSubnetIds |-> IdleSubnetCall]
    /\ deleteSubnet = [d \in DeleteSubnetCalls |-> IdleSubnetDelete]
    /\ NoFw
    /\ sled = [s \in SledIds |-> EligibleSled]
    /\ instance = [i \in InstanceIds |-> [NoInstance EXCEPT !.st = "live"]]
    /\ vmm = [m \in VmmIds |-> NoVmm]
    /\ \E st \in {"live", "deleted"} :
          inic = [n \in InicIds |->
                    IF n = "n1" THEN [NoInic EXCEPT !.st = st] ELSE NoInic]
    /\ snic = [n \in SnicIds |-> NoSnic]
    /\ bp_omicron_zone = {}
    /\ bp_target = {}
    /\ resolved = NotResolved

NextSubnet ==
    \/ \E k \in DOMAIN CreateSubnetCalls, v \in {"e1", "e2"} :
          CreateSubnetStart(k, v, TRUE)
    \/ \E s \in DOMAIN createSubnet, n \in Names, b4 \in Blocks(V4Bits),
          b6 \in Blocks(V6Bits) : CreateSubnetInsert(s, n, b4, b6)
    \/ \E d \in DeleteSubnetCalls, s \in SubnetIds :
          DeleteSubnetStart(d, s, TRUE)
    \/ \E d \in DeleteSubnetCalls : DeleteSubnetCheck(d)
    \/ \E d \in DeleteSubnetCalls : DeleteSubnetUpdate(d)
    \/ \E d \in DeleteVpcCalls : DeleteVpcStart(d, "e1", TRUE)
    \/ \E d \in DeleteVpcCalls : DeleteVpcCheck(d)
    \/ \E d \in DeleteVpcCalls : DeleteVpcUpdate(d)

SpecSubnet == InitSubnet /\ [][NextSubnet]_vars

(***************************************************************************)
(* The specification of stale snapshots: a VPC delete call is given a      *)
(* db_vpc that may be older than the row, and a subnet delete call runs    *)
(* while network interfaces are created in the subnet and deleted.         *)
(***************************************************************************)
InitStale ==
    /\ project = [p \in ProjectIds |-> "live"]
    /\ \E g \in 0..1 :
          vpc = [i \in VpcIds |->
                   IF i = "e1"
                     THEN [VpcRow("p1", "a", MIN_GUEST_VNI)
                             EXCEPT !.subnet_gen = g]
                   ELSE IF i = "e2" THEN VpcRow("p1", "b", MIN_GUEST_VNI + 1)
                   ELSE NoVpc]
    /\ createVpc = [c \in CreateVpcCalls |-> IdleCreate]
    /\ NoPlanning
    /\ NoHttp
    /\ NoLoad
    /\ NoRouters
    /\ deleteVpc = [d \in DeleteVpcCalls |-> IdleDelete]
    /\ \E v \in {"e1", "e2"} :
          subnet = [i \in SubnetIds |->
                      IF i \in ExistingSubnetIds
                        THEN SubnetRow(v, "a", [addr |-> 0, prefix |-> 0],
                                       [addr |-> 0, prefix |-> 0])
                        ELSE NoSubnet]
    /\ createSubnet = [i \in CreateSubnetIds |-> IdleSubnetCall]
    /\ deleteSubnet = [d \in DeleteSubnetCalls |-> IdleSubnetDelete]
    /\ NoFw
    /\ sled = [s \in SledIds |-> EligibleSled]
    /\ instance = [i \in InstanceIds |-> [NoInstance EXCEPT !.st = "live"]]
    /\ vmm = [m \in VmmIds |-> NoVmm]
    /\ inic = [n \in InicIds |-> NoInic]
    /\ snic = [n \in SnicIds |-> NoSnic]
    /\ bp_omicron_zone = {}
    /\ bp_target = {}
    /\ resolved = NotResolved

NextStale ==
    \/ \E d \in DeleteVpcCalls, g \in 0..1, a \in BOOLEAN :
          DeleteVpcStartFrom(d, "e1", g, a)
    \/ \E d \in DeleteVpcCalls : DeleteVpcCheck(d)
    \/ \E d \in DeleteVpcCalls : DeleteVpcUpdate(d)
    \/ \E d \in DeleteSubnetCalls, s \in ExistingSubnetIds, a \in BOOLEAN :
          DeleteSubnetStart(d, s, a)
    \/ \E d \in DeleteSubnetCalls : DeleteSubnetCheck(d)
    \/ \E d \in DeleteSubnetCalls : DeleteSubnetUpdate(d)
    \/ \E n \in InicIds, s \in ExistingSubnetIds : InstanceNicCreate(n, s)
    \/ \E n \in InicIds : InstanceNicDelete(n)

SpecStale == InitStale /\ [][NextStale]_vars

(***************************************************************************)
(* The firewall specification: two live VPCs, one of which may have a live *)
(* subnet; rule replacements, a delete-all and a VPC delete run            *)
(* concurrently.                                                           *)
(***************************************************************************)
InitFw ==
    /\ project = [p \in ProjectIds |-> "live"]
    /\ vpc = [i \in VpcIds |->
                IF i = "e1" THEN VpcRow("p1", "a", MIN_GUEST_VNI)
                ELSE IF i = "e2" THEN VpcRow("p1", "b", MIN_GUEST_VNI + 1)
                ELSE NoVpc]
    /\ createVpc = [c \in CreateVpcCalls |-> IdleCreate]
    /\ NoPlanning
    /\ NoHttp
    /\ NoLoad
    /\ NoRouters
    /\ deleteVpc = [d \in DeleteVpcCalls |-> IdleDelete]
    /\ \E v \in {"e1", "e2"} :
          subnet = [i \in SubnetIds |->
                      IF i \in ExistingSubnetIds
                        THEN SubnetRow(v, "a", [addr |-> 0, prefix |-> 0],
                                       [addr |-> 0, prefix |-> 0])
                        ELSE NoSubnet]
    /\ createSubnet = [i \in CreateSubnetIds |-> IdleSubnetCall]
    /\ deleteSubnet = [d \in DeleteSubnetCalls |-> IdleSubnetDelete]
    /\ \E n \in 0..1 :
          fwrule = [i \in RuleIds |->
                      IF i[1] = "x" /\ i[2] <= n
                        THEN [st |-> "live", vpc_id |-> "e1",
                              name |-> RuleNames[i[2]], body |-> "user"]
                      ELSE IF i[1] = "x" /\ i[2] = Len(RuleNames)
                        THEN [st |-> "live", vpc_id |-> "e2",
                              name |-> RuleNames[i[2]], body |-> "user"]
                      ELSE NoRule]
    /\ updateFw = [u \in FwCalls |-> IdleUpdateFw]
    /\ deleteAllFw = [d \in DeleteAllFwCalls |-> ""]
    /\ NoResolve

NextFw ==
    \/ \E u \in UpdateFwCalls, names \in RuleLists, authorized \in BOOLEAN :
          UpdateFwStart(u, "e1", names, authorized)
    \/ \E u \in UpdateFwCalls : UpdateFwDeleteOld(u)
    \/ \E u \in UpdateFwCalls : UpdateFwInsert(u)
    \/ \E u \in UpdateFwCalls : UpdateFwCommit(u)
    \/ \E v \in {"e1", "e2"} : DeleteAllFw("da1", v, TRUE)
    \/ \E d \in DeleteVpcCalls : DeleteVpcStart(d, "e1", TRUE)
    \/ \E d \in DeleteVpcCalls : DeleteVpcCheck(d)
    \/ \E d \in DeleteVpcCalls : DeleteVpcUpdate(d)

SpecFw == InitFw /\ [][NextFw]_vars

(***************************************************************************)
(* The specification of repeated delete-all calls: two calls on the same   *)
(* VPC, authorized or not, and a rule replacement on it.                   *)
(***************************************************************************)
NextFwDelete ==
    \/ \E d \in DeleteAllFwCalls, a \in BOOLEAN : DeleteAllFw(d, "e1", a)
    \/ \E names \in RuleLists : UpdateFwStart("u1", "e1", names, TRUE)
    \/ UpdateFwDeleteOld("u1")
    \/ UpdateFwInsert("u1")
    \/ UpdateFwCommit("u1")

SpecFwDelete == InitFw /\ [][NextFwDelete]_vars

(***************************************************************************)
(* The resolver's specifications.  SpecResolve: the tables hold any        *)
(* combination of rows of the guest path, one sled varies, and the         *)
(* resolver is called.  SpecTarget: two blueprints with any zones; targets *)
(* are set and a service NIC comes and goes between resolver calls.        *)
(***************************************************************************)
TwoVpcs ==
    /\ project = [p \in ProjectIds |-> "live"]
    /\ vpc = [i \in VpcIds |->
                IF i = "e1" THEN VpcRow("p1", "a", MIN_GUEST_VNI)
                ELSE IF i = "e2" THEN VpcRow("p1", "b", MIN_GUEST_VNI + 1)
                ELSE NoVpc]
    /\ createVpc = [c \in CreateVpcCalls |-> IdleCreate]
    /\ NoPlanning
    /\ NoHttp
    /\ NoLoad
    /\ NoRouters
    /\ deleteVpc = [d \in DeleteVpcCalls |-> IdleDelete]
    /\ NoSubnets
    /\ NoFw

Liveness == {"live", "deleted"}

InitResolve ==
    /\ TwoVpcs
    /\ \E st \in Liveness, policy \in SledPolicies, state \in SledStates :
          sled = [s \in SledIds |->
                    IF s = "sA"
                      THEN [st |-> st, policy |-> policy, state |-> state]
                      ELSE EligibleSled]
    /\ \E st \in Liveness, active \in VmmIds \cup {"NULL"} :
          instance = [i \in InstanceIds |->
                        [st |-> st, active_propolis_id |-> active]]
    /\ \E st \in Liveness :
          vmm = [m \in VmmIds |->
                   IF m = "m1" THEN [st |-> st, sled_id |-> "sA"]
                   ELSE [st |-> "live", sled_id |-> "sB"]]
    /\ \E st \in Liveness, v \in {"e1", "e2"} :
          inic = [n \in InicIds |->
                    IF n = "n1"
                      THEN [NoInic EXCEPT !.st = st]
                      ELSE [NoInic EXCEPT !.st = "live", !.vpc_id = v]]
    /\ snic = [n \in SnicIds |->
                 [NoSnic EXCEPT !.st = "live",
                     !.service_id = IF n = "sn1" THEN "z1" ELSE "z2"]]
    /\ \E d \in Dispositions :
          bp_omicron_zone =
              {[blueprint_id |-> "b1", sled_id |-> "sA", id |-> "z1",
                disposition |-> d],
               [blueprint_id |-> "b2", sled_id |-> "sB", id |-> "z2",
                disposition |-> "InService"]}
    /\ \E n \in 0..1 :
          bp_target = {[version |-> k, blueprint_id |-> "b1",
                        enabled |-> TRUE] : k \in 1..n}
    /\ resolved = NotResolved

NextResolve ==
    \E vpc_id \in {"e1", "e2"}, sleds_filter \in SUBSET SledIds :
        Resolve(vpc_id, sleds_filter)

SpecResolve == InitResolve /\ [][NextResolve]_vars

\* The zones a blueprint may hold: z1 on sA with any disposition, z2 on sB
\* in service or expunged.
ZoneChoices(b) ==
    {Z1 \cup Z2 :
       Z1 \in {{}} \cup {{[blueprint_id |-> b, sled_id |-> "sA", id |-> "z1",
                          disposition |-> d]} : d \in Dispositions},
       Z2 \in {{}} \cup {{[blueprint_id |-> b, sled_id |-> "sB", id |-> "z2",
                          disposition |-> d]} :
                            d \in {"InService", "Expunged"}}}

InitTarget ==
    /\ TwoVpcs
    /\ sled = [s \in SledIds |-> EligibleSled]
    /\ instance = [i \in InstanceIds |-> NoInstance]
    /\ vmm = [m \in VmmIds |-> NoVmm]
    /\ inic = [n \in InicIds |-> NoInic]
    /\ snic = [n \in SnicIds |->
                 IF n = "sn1" THEN NoSnic
                 ELSE [NoSnic EXCEPT !.st = "live", !.service_id = "z2"]]
    /\ \E Z1 \in ZoneChoices("b1"), Z2 \in ZoneChoices("b2") :
          bp_omicron_zone = Z1 \cup Z2
    /\ bp_target = {}
    /\ resolved = NotResolved

NextTarget ==
    \/ \E b \in BlueprintIds, enabled \in BOOLEAN :
          blueprint_target_set_current(b, enabled)
    \/ ServiceNicCreate("sn1", "e1", "z1")
    \/ ServiceNicDelete("sn1")
    \/ \E vpc_id \in {"e1", "e2"}, sleds_filter \in {{}, {"sA"}} :
          Resolve(vpc_id, sleds_filter)

SpecTarget == InitTarget /\ [][NextTarget]_vars

(***************************************************************************)
(* SpecSleds: five sleds, each with a Nexus zone in the one target         *)
(* blueprint and the zone's service NIC on the VPC; the policy and the     *)
(* state of the first four sleds are written between resolver calls.       *)
(***************************************************************************)
FiveSleds == <<"s1", "s2", "s3", "s4", "s5">>
FiveZones == <<"k1", "k2", "k3", "k4", "k5">>
FiveNics == <<"v1", "v2", "v3", "v4", "v5">>
IneligibleSleds == {"s1", "s2", "s3", "s4"}

InitSleds ==
    /\ TwoVpcs
    /\ sled = [s \in {FiveSleds[i] : i \in 1..5} |-> EligibleSled]
    /\ instance = [i \in InstanceIds |-> NoInstance]
    /\ vmm = [m \in VmmIds |-> NoVmm]
    /\ inic = [n \in InicIds |-> NoInic]
    /\ snic = [n \in {FiveNics[i] : i \in 1..5} |->
                 [NoSnic EXCEPT !.st = "live", !.vpc_id = "e1",
                     !.service_id =
                        FiveZones[CHOOSE i \in 1..5 : FiveNics[i] = n]]]
    /\ bp_omicron_zone =
          {[blueprint_id |-> "b1", sled_id |-> FiveSleds[i],
            id |-> FiveZones[i], disposition |-> "InService"] : i \in 1..5}
    /\ bp_target = {[version |-> 1, blueprint_id |-> "b1", enabled |-> TRUE]}
    /\ resolved = NotResolved

NextSleds ==
    \/ \E s \in IneligibleSleds, policy \in SledPolicies :
          SledSetPolicy(s, policy)
    \/ \E s \in IneligibleSleds, state \in SledStates :
          SledSetState(s, state)
    \/ \E vpc_id \in {"e1", "e2"} : Resolve(vpc_id, {})

SpecSleds == InitSleds /\ [][NextSleds]_vars

(***************************************************************************)
(* SpecPlanning: a planning input is built from sleds of any policy and    *)
(* state, the first with up to two zpools, and is then queried.            *)
(***************************************************************************)
\* The zpools a sled may be added with: zp1 on a disk of any policy and
\* state, zp2 on a disk in service and active, each present or not.
ZpoolChoices ==
    {[z \in Z1 \cup Z2 |->
        IF z = "zp1" THEN [policy |-> p, state |-> st]
        ELSE [policy |-> "InService", state |-> "Active"]] :
       Z1 \in {{}, {"zp1"}}, Z2 \in {{}, {"zp2"}},
       p \in PhysicalDiskPolicies, st \in PhysicalDiskStates}

SledDetailsOf(sled_id) ==
    {[policy |-> p, state |-> st, resources |-> [zpools |-> zs]] :
       p \in SledPolicies, st \in SledStates,
       zs \in IF sled_id = "sA" THEN ZpoolChoices ELSE {<< >>}}

InitPlanning ==
    /\ TwoVpcs
    /\ NoResolve

NextPlanning ==
    \/ \E sled_id \in SledIds : \E details \in SledDetailsOf(sled_id) :
          add_sled(sled_id, details)
    \/ \E filter \in SledFilters : AllSleds(filter)
    \/ \E policy \in SledPolicies, state \in SledStates,
          filter \in SledFilters : SledMatches(policy, state, filter)
    \/ \E sled_id \in SledIds, zpool \in ZpoolIds \cup {"zp3"} :
          ZpoolIsProvisionable(sled_id, zpool)
    \/ \E sled_id \in SledIds, filter \in ZpoolFilters :
          AllZpools(sled_id, filter)
    \/ \E sled_id \in SledIds, filter \in DiskFilters :
          AllDisks(sled_id, filter)

SpecPlanning == InitPlanning /\ [][NextPlanning]_vars

(***************************************************************************)
(* SpecRouter: a VPC with a subnet, a firewall rule, its system router and *)
(* the router's default route; routers and routes are created, updated and *)
(* deleted by callers                                                      *)
(* who pass the authorization check or not, and the resolver is called for *)
(* the VPC, which has a service zone on a sled.                            *)
(***************************************************************************)
\* The rows of a VPC whose row, subnet, system router and route are live or,
\* after each of them was deleted, soft-deleted: the firewall rule is live in
\* both.
RouterRows(st) ==
    /\ project = [p \in ProjectIds |-> "live"]
    /\ vpc = [i \in VpcIds |->
                IF i = "e1"
                  THEN [VpcRow("p1", "a", MIN_GUEST_VNI) EXCEPT !.st = st]
                  ELSE NoVpc]
    /\ createVpc = [c \in CreateVpcCalls |-> IdleCreate]
    /\ deleteVpc = [d \in DeleteVpcCalls |-> IdleDelete]
    /\ subnet = [i \in SubnetIds |->
                   IF i \in ExistingSubnetIds
                     THEN [SubnetRow("e1", "a", [addr |-> 0, prefix |-> 0],
                                     [addr |-> 0, prefix |-> 0])
                             EXCEPT !.st = st]
                     ELSE NoSubnet]
    /\ createSubnet = [i \in CreateSubnetIds |-> IdleSubnetCall]
    /\ deleteSubnet = [d \in DeleteSubnetCalls |-> IdleSubnetDelete]
    /\ fwrule = [i \in RuleIds |->
                   IF i = <<"x", 1>>
                     THEN [st |-> "live", vpc_id |-> "e1",
                           name |-> RuleNames[1], body |-> "user"]
                     ELSE NoRule]
    /\ updateFw = [u \in FwCalls |-> IdleUpdateFw]
    /\ deleteAllFw = [d \in DeleteAllFwCalls |-> ""]
    /\ NoPlanning
    /\ NoHttp
    /\ NoLoad
    /\ sled = [s \in SledIds |-> EligibleSled]
    /\ instance = [i \in InstanceIds |-> NoInstance]
    /\ vmm = [m \in VmmIds |-> NoVmm]
    /\ inic = [n \in InicIds |-> NoInic]
    /\ bp_omicron_zone = {[blueprint_id |-> "b1", sled_id |-> "sA",
                           id |-> "z1", disposition |-> "InService"]}
    /\ bp_target = {[version |-> 1, blueprint_id |-> "b1", enabled |-> TRUE]}
    /\ resolved = NotResolved
    /\ router = [r \in RouterIds |->
                   IF r = system_router_id("e1")
                     THEN [st |-> st, vpc_id |-> "e1", kind |-> "System",
                           name |-> "a", rcgen |-> 1,
                           time_deleted |-> IF st = "deleted" THEN 1 ELSE 0]
                     ELSE NoRouter]
    /\ route = [t \in RouteIds |->
                  IF t = "t1"
                    THEN [st |-> st,
                          vpc_router_id |-> system_router_id("e1"),
                          name |-> "a",
                          time_deleted |-> IF st = "deleted" THEN 1 ELSE 0]
                    ELSE NoRoute]
    /\ called = NotCalled

InitRouterRows == RouterRows("live")

InitRouter ==
    /\ InitRouterRows
    /\ snic = [n \in SnicIds |->
                 IF n = "sn1" THEN [NoSnic EXCEPT !.st = "live"] ELSE NoSnic]

NextRouter ==
    \/ \E id \in RouterIds, kind \in RouterKinds, name \in Names,
          authorized \in BOOLEAN :
          VpcCreateRouter(id, "e1", kind, name, authorized)
    \/ \E r \in RouterIds, authorized \in BOOLEAN :
          VpcDeleteRouter(r, authorized)
    \/ \E r \in RouterIds, name \in Names, authorized \in BOOLEAN :
          VpcUpdateRouter(r, name, authorized)
    \/ \E id \in RouteIds, r \in RouterIds, name \in Names,
          authorized \in BOOLEAN :
          RouterCreateRoute(id, r, name, authorized)
    \/ \E t \in RouteIds, authorized \in BOOLEAN :
          RouterDeleteRoute(t, authorized)
    \/ \E t \in RouteIds, name \in Names, authorized \in BOOLEAN :
          RouterUpdateRoute(t, name, authorized)
    \/ \E authorized \in BOOLEAN : ResolveBy(authorized, "e1", {})

SpecRouter == InitRouter /\ [][NextRouter]_vars

(***************************************************************************)
(* SpecSoftDelete: a VPC with a subnet without network interfaces, a       *)
(* firewall rule, its system router and the router's default route; each   *)
(* row is listed, updated and deleted, and routers and routes are created  *)
(* with ids of rows that exist.                                            *)
(***************************************************************************)
InitSoftDelete ==
    /\ InitRouterRows
    /\ snic = [n \in SnicIds |-> NoSnic]

NextSoftDelete ==
    \/ VpcList("p1", TRUE)
    \/ \E name \in Names : ProjectUpdateVpc("e1", name, TRUE)
    \/ \E d \in DeleteVpcCalls : DeleteVpcStart(d, "e1", TRUE)
    \/ \E d \in DeleteVpcCalls : DeleteVpcCheck(d)
    \/ \E d \in DeleteVpcCalls : DeleteVpcUpdate(d)
    \/ VpcSubnetList("e1", TRUE)
    \/ \E name \in Names : VpcUpdateSubnet("x1", name, TRUE)
    \/ \E d \in DeleteSubnetCalls : DeleteSubnetStart(d, "x1", TRUE)
    \/ \E d \in DeleteSubnetCalls : DeleteSubnetCheck(d)
    \/ \E d \in DeleteSubnetCalls : DeleteSubnetUpdate(d)
    \/ VpcListFirewallRules("e1", TRUE)
    \/ DeleteAllFw("da1", "e1", TRUE)
    \/ VpcRouterList("e1", TRUE)
    \/ \E kind \in RouterKinds :
          VpcCreateRouter(system_router_id("e1"), "e1", kind, "b", TRUE)
    \/ \E name \in Names :
          VpcUpdateRouter(system_router_id("e1"), name, TRUE)
    \/ VpcDeleteRouter(system_router_id("e1"), TRUE)
    \/ VpcRouterRouteList(system_router_id("e1"), TRUE)
    \/ RouterCreateRoute("t1", system_router_id("e1"), "b", TRUE)
    \/ \E name \in Names : RouterUpdateRoute("t1", name, TRUE)
    \/ RouterDeleteRoute("t1", TRUE)

SpecSoftDelete == InitSoftDelete /\ [][NextSoftDelete]_vars

(***************************************************************************)
(* SpecGone: the VPC and its subnet are soft-deleted, its firewall rule,   *)
(* router and route are live; callers that hold the VPC, the router and    *)
(* the route from earlier lookups replace and delete the rules, delete the *)
(* VPC, the router and the route, and create a route.                      *)
(***************************************************************************)
InitGone ==
    /\ RouterRows("deleted")
    /\ snic = [n \in SnicIds |-> NoSnic]

NextGone ==
    \/ \E names \in RuleLists : UpdateFwStartHeld("u1", "e1", names)
    \/ UpdateFwDeleteOld("u1")
    \/ UpdateFwInsert("u1")
    \/ UpdateFwCommit("u1")
    \/ DeleteAllFw("da1", "e1", TRUE)
    \/ \E d \in DeleteVpcCalls : DeleteVpcStartHeld(d, "e1")
    \/ \E d \in DeleteVpcCalls : DeleteVpcCheck(d)
    \/ \E d \in DeleteVpcCalls : DeleteVpcUpdate(d)
    \/ VpcDeleteRouter(system_router_id("e1"), TRUE)
    \/ RouterDeleteRoute("t1", TRUE)
    \/ \E name \in Names :
          RouterCreateRoute("t2", system_router_id("e1"), name, TRUE)

SpecGone == InitGone /\ [][NextGone]_vars

(***************************************************************************)
(* SpecLoad: load_builtin_vpcs runs once, on a database that has none of   *)
(* the built-in rows or on one where an earlier run completed and callers  *)
(* have since replaced the rules of the services VPC (at most two rules,   *)
(* with any of the names).                                                 *)
(***************************************************************************)
RuleChoices ==
    {[name |-> NameOrder[i], body |-> "user"] : i \in DOMAIN NameOrder} \cup
    {[name |-> n, body |-> "builtin"] : n \in BuiltinRuleNames}

RuleSets ==
    {R \in SUBSET RuleChoices :
        /\ Cardinality(R) <= Len(RuleNames)
        /\ \A r, q \in R : r.name = q.name => r = q}

LoadedRows(R) ==
    /\ vpc = [i \in VpcIds |->
                IF i = SERVICES_VPC_ID
                  THEN [VpcRow(SERVICES_PROJECT_ID, SERVICES_VPC_NAME,
                               SERVICES_VNI) EXCEPT !.firewall_gen = 1]
                  ELSE NoVpc]
    /\ router = [r \in RouterIds |->
                   IF r = ServicesRouterId
                     THEN [st |-> "live", vpc_id |-> SERVICES_VPC_ID,
                           kind |-> "System", name |-> "system",
                           rcgen |-> 1, time_deleted |-> 0]
                     ELSE NoRouter]
    /\ route = [t \in RouteIds |->
                  IF t = SERVICES_VPC_DEFAULT_ROUTE_ID
                    THEN [st |-> "live", vpc_router_id |-> ServicesRouterId,
                          name |-> "default", time_deleted |-> 0]
                    ELSE NoRoute]
    /\ subnet = [i \in SubnetIds |->
                   IF \E k \in DOMAIN BuiltinSubnetIds :
                         BuiltinSubnetIds[k] = i
                     THEN BuiltinSubnetRow(
                              CHOOSE k \in DOMAIN BuiltinSubnetIds :
                                  BuiltinSubnetIds[k] = i)
                     ELSE NoSubnet]
    /\ fwrule = [i \in RuleIds |->
                   IF i[1] = "x" /\ i[2] <= Cardinality(R)
                     THEN [st |-> "live", vpc_id |-> SERVICES_VPC_ID,
                           name |-> OrderByName(R)[i[2]].name,
                           body |-> OrderByName(R)[i[2]].body]
                     ELSE NoRule]

InitLoad ==
    /\ project = [p \in ProjectIds |-> "live"]
    /\ \/ \E R \in RuleSets : LoadedRows(R)
       \/ /\ vpc = [i \in VpcIds |-> NoVpc]
          /\ router = [r \in RouterIds |-> NoRouter]
          /\ route = [t \in RouteIds |-> NoRoute]
          /\ subnet = [i \in SubnetIds |-> NoSubnet]
          /\ fwrule = [i \in RuleIds |-> NoRule]
    /\ createVpc = [c \in CreateVpcCalls |-> IdleCreate]
    /\ deleteVpc = [d \in DeleteVpcCalls |-> IdleDelete]
    /\ createSubnet = [i \in CreateSubnetIds |-> IdleSubnetCall]
    /\ deleteSubnet = [d \in DeleteSubnetCalls |-> IdleSubnetDelete]
    /\ updateFw = [u \in FwCalls |-> IdleUpdateFw]
    /\ deleteAllFw = [d \in DeleteAllFwCalls |-> ""]
    /\ called = NotCalled
    /\ NoResolve
    /\ NoPlanning
    /\ NoHttp
    /\ NoLoad

NextLoad ==
    \/ \E authorized \in BOOLEAN : LoadStart(authorized)
    \/ LoadVpc
    \/ LoadRouterLookup
    \/ LoadRouterCreate
    \/ LoadRoute
    \/ LoadFwRules
    \/ UpdateFwDeleteOld(LoadFwCall)
    \/ UpdateFwInsert(LoadFwCall)
    \/ UpdateFwCommit(LoadFwCall)
    \/ LoadFwReturn
    \/ LoadSubnetFetch
    \/ LoadSubnetCreate

SpecLoad == InitLoad /\ [][NextLoad]_vars

(***************************************************************************)
(* Claims about the VNI allocator, checked under SpecVni.                  *)
(***************************************************************************)
Held(v) == \E i \in VpcIds : vpc[i].st = "live" /\ vpc[i].vni = v
HeldVnis == {v \in 0..(MAX_VNI + STEP_SIZE + 1) : Held(v)}
WindowOf(start) == {v \in LegalVnis : start <= v /\ v <= start + STEP_SIZE}
NameTaken(p, n) ==
    \E i \in VpcIds : /\ vpc[i].st = "live"
                      /\ vpc[i].project_id = p
                      /\ vpc[i].name = n
\* The call c takes a step of its search loop.
Attempts(c) == createVpc[c].pc = "search" /\ createVpc'[c] # createVpc[c]

\* C1: no two live VPC rows have the same vni, whatever the interleaving of
\* create calls (also from the same seed) and delete calls.
C1_VniUnique ==
    \A i, j \in VpcIds :
        (i # j /\ vpc[i].st = "live" /\ vpc[j].st = "live")
            => vpc[i].vni # vpc[j].vni

\* Two create calls that started from the same seed both inserted their row,
\* and a delete call has freed a VNI in the meantime.
C1_Witness ==
    /\ \E c, k \in CreateVpcCalls :
          /\ c # k
          /\ createVpc[c].res = "Ok" /\ createVpc[k].res = "Ok"
          /\ createVpc[c].seed = createVpc[k].seed
          /\ vpc[c].st = "live" /\ vpc[k].st = "live"
    /\ \E d \in DeleteVpcCalls : deleteVpc[d].res = "Ok"

\* C8: a raw insert on a window whose every VNI is held by a live VPC
\* inserts no row and reports no error: the call moves on to the following
\* window; a raw insert on a window with a free VNI (and a free name) inserts
\* the row under the requested id with the least free VNI of that window,
\* which is seed + STEP_SIZE + 1 when exactly the seed's window is full.
C8_ExhaustedWindowRetries ==
    [][\A c \in CreateVpcCalls :
        (/\ Attempts(c)
         /\ createVpc[c].authorized
         /\ project[createVpc[c].project_id] = "live")
        => LET call == createVpc[c]
               start == Head(call.vnis)
               free == {v \in WindowOf(start) : ~Held(v)}
           IN /\ free = {} =>
                   /\ vpc' = vpc
                   /\ createVpc'[c].res \in {"", "InsufficientCapacity"}
                   /\ Len(call.vnis) > 1 =>
                        /\ createVpc'[c].pc = "search"
                        /\ Head(createVpc'[c].vnis) =
                              IF start + STEP_SIZE + 1 <= MAX_VNI
                                 \/ start < call.seed
                                THEN start + STEP_SIZE + 1
                                ELSE MIN_GUEST_VNI
              /\ (free # {} /\ ~NameTaken(call.project_id, call.name)) =>
                   /\ createVpc'[c].res = "Ok"
                   /\ vpc'[c].st = "live"
                   /\ vpc'[c].vni \in free
                   /\ \A v \in free : vpc'[c].vni <= v
                   /\ createVpc'[c].vni = vpc'[c].vni
                   /\ \A i \in VpcIds \ {c} : vpc'[i] = vpc[i]
                   /\ (/\ call.attempts = 1
                       /\ HeldVnis = WindowOf(call.seed)
                       /\ call.seed + STEP_SIZE + 1 <= MAX_VNI)
                      => vpc'[c].vni = call.seed + STEP_SIZE + 1
      ]_vars

\* A call found its seed's window full, went on to the next one and got
\* seed + STEP_SIZE + 1.
C8_Witness ==
    \E c \in CreateVpcCalls :
        /\ createVpc[c].res = "Ok"
        /\ createVpc[c].attempts = 2
        /\ createVpc[c].nones = 1
        /\ vpc[c].st = "live"
        /\ vpc[c].vni = createVpc[c].seed + STEP_SIZE + 1

\* C9: a create call makes at most one raw insert per window of the finite
\* window sequence of its seed, every step of its loop consumes a window, and
\* it ends with InsufficientCapacity exactly when every window's insert
\* returned None; no row of the call exists then.
C9_BoundedSearch ==
    \A c \in CreateVpcCalls :
        LET call == createVpc[c]
            windows == Len(VniSearchIter(call.seed))
        IN call.pc # "idle" =>
             /\ call.attempts <= windows
             /\ call.nones <= call.attempts
             /\ call.pc = "search" =>
                  /\ call.vnis # << >>
                  /\ call.attempts + Len(call.vnis) = windows
                  /\ call.nones = call.attempts
             /\ call.pc = "done" =>
                  /\ call.res = "InsufficientCapacity" <=> call.nones = windows
                  /\ call.res = "InsufficientCapacity" => vpc[c].st = "none"

C9_Terminates ==
    /\ []C9_BoundedSearch
    /\ \A c \in CreateVpcCalls :
          (createVpc[c].pc = "search") ~> (createVpc[c].pc = "done")

\* A call ran out of windows.
C9_Witness ==
    \E c \in CreateVpcCalls :
        /\ createVpc[c].pc = "done"
        /\ createVpc[c].res = "InsufficientCapacity"
        /\ createVpc[c].attempts = Len(VniSearchIter(createVpc[c].seed))
        /\ createVpc[c].attempts > 1

\* C10: a raw insert that fails for another reason than VNI exhaustion ends
\* the call with that error and without a row: Forbidden when authorization
\* fails, NotFound(Project) when the project is not live, ObjectAlreadyExists
\* when the window has a free VNI and the name is taken by a live VPC of the
\* project; a finished call tries no further window.
C10_ErrorsStopTheSearch ==
    [][\A c \in CreateVpcCalls :
        /\ Attempts(c) =>
             LET call == createVpc[c]
                 free == {v \in WindowOf(Head(call.vnis)) : ~Held(v)}
                 failed(e) == /\ createVpc'[c].pc = "done"
                              /\ createVpc'[c].res = e
                              /\ createVpc'[c].attempts = call.attempts + 1
                              /\ vpc' = vpc
                              /\ vpc[c].st = "none"
             IN /\ ~call.authorized => failed("Forbidden")
                /\ (call.authorized /\ project[call.project_id] # "live")
                     => failed("ObjectNotFound(Project)")
                /\ (/\ call.authorized
                    /\ project[call.project_id] = "live"
                    /\ free # {}
                    /\ NameTaken(call.project_id, call.name))
                     => failed("ObjectAlreadyExists")
        /\ createVpc[c].pc = "done" => createVpc'[c] = createVpc[c]
      ]_vars

\* A call found its first window full and stopped on a name conflict in the
\* second one, with a window left untried.
C10_Witness ==
    \E c \in CreateVpcCalls :
        /\ createVpc[c].res = "ObjectAlreadyExists"
        /\ createVpc[c].attempts = 2
        /\ createVpc[c].nones = 1
        /\ Len(VniSearchIter(createVpc[c].seed)) > 2
        /\ vpc[c].st = "none"

\* C11 as stated: when two searching calls (with different names) are about
\* to compute the same VNI and one of them inserts its row with it, the
\* other's insert observes a NULL vni.
C11_LoserSeesNull ==
    [][\A c \in CreateVpcCalls :
         (Attempts(c) /\ createVpc'[c].res = "Ok") =>
           \A k \in Rivals(c) :
              createVpc[k].name # createVpc[c].name =>
                 project_create_vpc_raw(createVpc[k].authorized,
                                        createVpc[k].project_id, k,
                                        createVpc[k].name,
                                        Head(createVpc[k].vnis))'.kind
                   = "None"]_vars

\* C11, amended: when two searching calls are about to compute the same VNI
\* and one of them inserts its row with it, that call alone has a row with
\* that VNI; the other's insert then computes its VNI anew: it gets the least
\* VNI of its window that is still free, and observes a NULL vni, after which
\* it moves to another window, only if its window has no free VNI left.  It
\* gets no error unless its name was taken.
C11_LoserTakesNextFree ==
    [][\A c \in CreateVpcCalls :
         /\ (Attempts(c) /\ createVpc'[c].res = "Ok") =>
               \A k \in Rivals(c) :
                  LET start == Head(createVpc[k].vnis)
                      left == {v \in WindowOf(start) : ~Held(v)}
                                 \ {vpc'[c].vni}
                      r == project_create_vpc_raw(createVpc[k].authorized,
                                                  createVpc[k].project_id, k,
                                                  createVpc[k].name, start)'
                  IN /\ vpc'[c].vni = Candidate(c).vni
                     /\ vpc'[k] = vpc[k] /\ vpc[k].st = "none"
                     /\ createVpc'[k] = createVpc[k]
                     /\ createVpc'[c].beat = Rivals(c)
                     /\ left = {} => r.kind = "None"
                     /\ (/\ left # {}
                         /\ ~NameTaken(createVpc[k].project_id,
                                       createVpc[k].name)') =>
                           /\ r.kind = "Some"
                           /\ r.vni \in left
                           /\ \A v \in left : r.vni <= v
                     /\ r.kind = "Err" =>
                           NameTaken(createVpc[k].project_id,
                                     createVpc[k].name)'
         /\ (/\ Attempts(c)
             /\ createVpc'[c].pc = "search") =>
               Head(createVpc'[c].vnis) # Head(createVpc[c].vnis)
      ]_vars

\* Two calls were about to compute the same VNI; one got it, and the other
\* succeeded with its first insert all the same, on another VNI of the
\* window.
C11_Witness ==
    \E c, k \in CreateVpcCalls :
        /\ k \in createVpc[c].beat
        /\ createVpc[c].res = "Ok" /\ createVpc[k].res = "Ok"
        /\ createVpc[k].attempts = 1
        /\ vpc[c].st = "live" /\ vpc[k].st = "live"
        /\ vpc[k].vni # vpc[c].vni
        /\ vpc[k].vni \in WindowOf(createVpc[k].seed)
        /\ vpc[c].vni \in WindowOf(createVpc[k].seed)

\* C12 as stated: every VPC row has its vni outside the reserved range, the
\* values below MIN_GUEST_VNI.
C12_NoReservedVni ==
    \A i \in VpcIds : vpc[i].st # "none" => vpc[i].vni >= MIN_GUEST_VNI

\* C12, amended: every VPC row, live or soft-deleted, that project_create_vpc
\* made has its vni in the guest range MIN_GUEST_VNI..MAX_VNI, whatever its
\* seed and also after the windows wrapped; the row of the services VPC,
\* which load_builtin_vpcs makes, has the vni SERVICES_VNI, which lies in the
\* reserved range.
C12_VniRanges ==
    /\ \A i \in VpcIds \ {SERVICES_VPC_ID} :
          vpc[i].st # "none" => vpc[i].vni \in MIN_GUEST_VNI..MAX_VNI
    /\ vpc[SERVICES_VPC_ID].st # "none" =>
          /\ vpc[SERVICES_VPC_ID].vni = SERVICES_VNI
          /\ SERVICES_VNI < MIN_GUEST_VNI
          /\ vpc[SERVICES_VPC_ID].project_id = SERVICES_PROJECT_ID

\* The services VPC is loaded, and a create call whose seed was the last VNI
\* got its VNI after its windows wrapped.
C12_Witness ==
    /\ vpc[SERVICES_VPC_ID].st = "live"
    /\ vpc[SERVICES_VPC_ID].vni = SERVICES_VNI
    /\ createVpc["c1"].res = "Ok"
    /\ createVpc["c1"].seed = MAX_VNI
    /\ createVpc["c1"].nones >= 1
    /\ vpc["c1"].st = "live"
    /\ vpc["c1"].vni < createVpc["c1"].seed

(***************************************************************************)
(* Claims about VPC subnets, checked under SpecSubnet.                     *)
(***************************************************************************)
Addrs(b, bits) == First(b)..Last(b, bits)

\* C2: in every reachable state, any two distinct live subnets of the same
\* VPC have disjoint IPv4 blocks and disjoint IPv6 blocks, whatever the
\* interleaving of subnet creations and deletions.
C2_SubnetsDisjoint ==
    \A i, j \in SubnetIds :
        (/\ i # j
         /\ subnet[i].st = "live"
         /\ subnet[j].st = "live"
         /\ subnet[i].vpc_id = subnet[j].vpc_id)
        => /\ Addrs(subnet[i].ipv4_block, V4Bits)
                \cap Addrs(subnet[j].ipv4_block, V4Bits) = {}
           /\ Addrs(subnet[i].ipv6_block, V6Bits)
                \cap Addrs(subnet[j].ipv6_block, V6Bits) = {}

\* Two subnets created by concurrent calls are live in the same VPC after
\* the subnet that was there before them has been deleted.
C2_Witness ==
    /\ subnet["s1"].st = "live"
    /\ subnet["s2"].st = "live"
    /\ subnet["s1"].vpc_id = subnet["s2"].vpc_id
    /\ subnet["x1"].st = "deleted"
    /\ subnet["x1"].vpc_id = subnet["s1"].vpc_id
    /\ \E d \in DeleteSubnetCalls : deleteSubnet[d].res = "Ok"

\* C3: whenever project_delete_vpc(v) returns success, v has no live subnet
\* at the moment its soft-delete takes effect, also when a vpc_create_subnet
\* on v ran between the delete's subnet check and its conditional update.
C3_NoOrphanDelete ==
    [][\A d \in DeleteVpcCalls :
         (deleteVpc[d].pc = "update" /\ deleteVpc'[d].res = "Ok")
         => ~(\E i \in SubnetIds :
                 /\ subnet'[i].st = "live"
                 /\ subnet'[i].vpc_id = deleteVpc[d].vpc_id)]_vars

\* The blocks of rows a and b share an address, per family.
SharesV4(a, b) ==
    Addrs(a.ipv4_block, V4Bits) \cap Addrs(b.ipv4_block, V4Bits) # {}
SharesV6(a, b) ==
    Addrs(a.ipv6_block, V6Bits) \cap Addrs(b.ipv6_block, V6Bits) # {}

\* C13: the insert of vpc_create_subnet, for a candidate row whose IPv4 or
\* IPv6 block shares an address with a live subnet of the same VPC, returns
\* OverlappingIpRange for a family that overlaps and changes no row; for a
\* candidate that shares addresses with soft-deleted subnets or subnets of
\* other VPCs only, and whose name no live subnet of the VPC has, it inserts
\* the row.
C13_OverlapRejected ==
    [][\A s \in DOMAIN createSubnet :
         (/\ createSubnet[s].pc = "insert"
          /\ createSubnet'[s].pc = "done"
          /\ createSubnet[s].authorized) =>
           LET res == createSubnet'[s].res
               row == IF res = "Ok" THEN subnet'[s] ELSE createSubnet'[s].row
               siblings == {i \in SubnetIds : /\ subnet[i].st = "live"
                                              /\ subnet[i].vpc_id = row.vpc_id}
               overlap4 == \E i \in siblings : SharesV4(row, subnet[i])
               overlap6 == \E i \in siblings : SharesV6(row, subnet[i])
               nameTaken == \E i \in siblings : subnet[i].name = row.name
           IN /\ row.vpc_id = createSubnet[s].vpc_id
              /\ (overlap4 \/ overlap6) =>
                    /\ res \in {"OverlappingIpRange(ipv4)",
                                "OverlappingIpRange(ipv6)"}
                    /\ subnet' = subnet
              /\ res = "OverlappingIpRange(ipv4)" => overlap4
              /\ res = "OverlappingIpRange(ipv6)" => overlap6
              /\ (~overlap4 /\ ~overlap6 /\ ~nameTaken) =>
                    /\ res = "Ok"
                    /\ subnet'[s].st = "live"
                    /\ \A i \in SubnetIds \ {s} : subnet'[i] = subnet[i]
      ]_vars

\* A candidate that shares addresses in both families with the soft-deleted
\* subnet of its VPC was inserted; a later candidate for the same VPC, which
\* shares IPv6 addresses but no IPv4 address with the inserted one, was
\* rejected for IPv6.
C13_Witness ==
    \E s, t \in DOMAIN createSubnet :
        /\ createSubnet[s].res = "Ok"
        /\ subnet[s].st = "live"
        /\ subnet["x1"].st = "deleted"
        /\ subnet[s].vpc_id = subnet["x1"].vpc_id
        /\ SharesV4(subnet[s], subnet["x1"])
        /\ SharesV6(subnet[s], subnet["x1"])
        /\ createSubnet[t].res = "OverlappingIpRange(ipv6)"
        /\ createSubnet[t].row.vpc_id = subnet[s].vpc_id
        /\ SharesV6(createSubnet[t].row, subnet[s])
        /\ ~SharesV4(createSubnet[t].row, subnet[s])
        /\ subnet[t].st = "none"

\* C14: the subnet check of project_delete_vpc ends the call with
\* InvalidRequest (VPC Subnets exist) and leaves the VPC live when the VPC
\* has a live subnet; when it has none, among them when all its subnets are
\* soft-deleted, the call goes on to its update, which soft-deletes the VPC
\* and returns success.
C14_DeleteNeedsNoSubnets ==
    [][\A d \in DeleteVpcCalls :
         LET call == deleteVpc[d]
             v == call.vpc_id
             live == {i \in SubnetIds : /\ subnet[i].st = "live"
                                        /\ subnet[i].vpc_id = v}
         IN /\ (call.pc = "check" /\ call.authorized
                  /\ deleteVpc'[d] # call) =>
                 /\ vpc' = vpc
                 /\ vpc[v].st = "live"
                 /\ IF live # {}
                      THEN /\ deleteVpc'[d].pc = "done"
                           /\ deleteVpc'[d].res =
                                 "InvalidRequest(subnets exist)"
                      ELSE deleteVpc'[d].pc = "update"
            /\ (call.pc = "update" /\ deleteVpc'[d] # call) =>
                 /\ deleteVpc'[d].pc = "done"
                 /\ deleteVpc'[d].res = "Ok"
                 /\ vpc[v].st = "live"
                 /\ vpc'[v].st = "deleted"
            /\ (call.pc = "done"
                  /\ call.res = "InvalidRequest(subnets exist)") =>
                 vpc[v].st = "live" /\ vpc'[v].st = "live"
      ]_vars

\* The only subnet of the VPC was soft-deleted and project_delete_vpc then
\* succeeded: the subnet's row is still there, and the VPC is not live.
C14_Witness ==
    \E d \in DeleteVpcCalls, ds \in DeleteSubnetCalls :
        /\ deleteVpc[d].res = "Ok"
        /\ vpc[deleteVpc[d].vpc_id].st = "deleted"
        /\ deleteSubnet[ds].res = "Ok"
        /\ subnet[deleteSubnet[ds].subnet_id].st = "deleted"
        /\ subnet[deleteSubnet[ds].subnet_id].vpc_id = deleteVpc[d].vpc_id
        /\ \A i \in SubnetIds :
              subnet[i].vpc_id = deleteVpc[d].vpc_id => subnet[i].st # "live"

\* C15: the update of project_delete_vpc, when the row's subnet_gen differs
\* from that of the snapshot the call was given, changes no row, leaves the
\* VPC live and ends the call with InvalidRequest (concurrent modification);
\* so does the update of vpc_delete_subnet when the row's rcgen differs from
\* the snapshot's, leaving the subnet live.  With equal generations and a
\* live row the update soft-deletes the row and the call succeeds.
C15_StaleSnapshotRefused ==
    [][/\ \A d \in DeleteVpcCalls :
            LET call == deleteVpc[d]
                v == call.vpc_id
            IN (call.pc = "update" /\ deleteVpc'[d] # call) =>
                 /\ deleteVpc'[d].pc = "done"
                 /\ IF vpc[v].subnet_gen # call.subnet_gen
                      THEN /\ deleteVpc'[d].res =
                                 "InvalidRequest(concurrent modification)"
                           /\ vpc' = vpc
                           /\ vpc'[v].st = "live"
                      ELSE /\ deleteVpc'[d].res = "Ok"
                           /\ vpc'[v].st = "deleted"
       /\ \A d \in DeleteSubnetCalls :
            LET call == deleteSubnet[d]
                s == call.subnet_id
            IN (call.pc = "update" /\ deleteSubnet'[d] # call) =>
                 /\ deleteSubnet'[d].pc = "done"
                 /\ IF subnet[s].rcgen # call.rcgen
                      THEN /\ deleteSubnet'[d].res =
                                 "InvalidRequest(concurrent modification)"
                           /\ subnet' = subnet
                           /\ subnet'[s].st = "live"
                      ELSE /\ deleteSubnet'[d].res = "Ok"
                           /\ subnet'[s].st = "deleted"
      ]_vars

\* A VPC delete given an old snapshot and a subnet delete overtaken by the
\* creation of a network interface both failed on their update; the VPC and
\* the subnet are live.
C15_Witness ==
    \E d \in DeleteVpcCalls, ds \in DeleteSubnetCalls :
        /\ deleteVpc[d].res = "InvalidRequest(concurrent modification)"
        /\ vpc[deleteVpc[d].vpc_id].st = "live"
        /\ vpc[deleteVpc[d].vpc_id].subnet_gen # deleteVpc[d].subnet_gen
        /\ deleteSubnet[ds].res = "InvalidRequest(concurrent modification)"
        /\ subnet[deleteSubnet[ds].subnet_id].st = "live"
        /\ subnet[deleteSubnet[ds].subnet_id].rcgen # deleteSubnet[ds].rcgen

(***************************************************************************)
(* Claims about firewall rules, checked under SpecFw.                      *)
(***************************************************************************)
SortedByName(rows) ==
    \A k \in 1..(Len(rows) - 1) :
        NameRank(rows[k].name) <= NameRank(rows[k + 1].name)

StepOfUpdate(u) == updateFw'[u] # updateFw[u]

\* C4: on the step on which vpc_update_firewall_rules(vpc, R) returns
\* success, the listing of vpc is R ordered by name ascending and equals the
\* returned rows, in the same order; every other step of the call, whether it
\* ends the call with an error or not, leaves the rule table as it was.
C4_ReplacementAtomic ==
    [][\A u \in UpdateFwCalls :
         StepOfUpdate(u) =>
           LET after == updateFw'[u]
               given == {[id |-> <<u, i>>, name |-> after.given[i]] :
                           i \in DOMAIN after.given}
           IN IF after.pc = "done" /\ after.res = "Ok"
                THEN /\ vpc_list_firewall_rules(updateFw[u].vpc_id)'
                          = after.returned
                     /\ Len(after.returned) = Len(after.given)
                     /\ {after.returned[k] : k \in DOMAIN after.returned}
                          = given
                     /\ SortedByName(after.returned)
                ELSE fwrule' = fwrule]_vars

\* A replacement given its rules out of order has succeeded after a rerun,
\* another one has failed on its insert.
C4_Witness ==
    \E u, w \in UpdateFwCalls :
        /\ updateFw[u].res = "Ok"
        /\ updateFw[u].given = <<"b", "a">>
        /\ updateFw[u].retries = 1
        /\ vpc_list_firewall_rules(updateFw[u].vpc_id) = updateFw[u].returned
        /\ updateFw[w].res = "InternalError"

\* C5 as stated: a replacement with non-empty rules that was in flight when
\* project_delete_vpc was called on its VPC returns NotFound(Vpc), unless it
\* fails for a reason of its own (rules with the same name, reruns used up).
C5_DeleteAbortsReplacement ==
    [][\A u \in UpdateFwCalls, d \in DeleteVpcCalls :
         (/\ StepOfUpdate(u)
          /\ updateFw'[u].pc = "done"
          /\ updateFw'[u].res \notin {"InternalError", "ServiceUnavailable"}
          /\ updateFw[u].given # << >>
          /\ deleteVpc[d].pc # "idle"
          /\ u \in deleteVpc[d].during)
         => updateFw'[u].res = "NotFound(Vpc)"]_vars

\* C5, amended: a replacement whose insert runs after the VPC's soft-delete
\* took effect returns NotFound(Vpc) and changes no rule, and it returns
\* NotFound(Vpc) in that case only; once its insert has run, the VPC stays
\* live until the replacement has ended, so a replacement that succeeds
\* leaves a live VPC.  The delete fails on its check exactly when the VPC has
\* a live subnet, and its update succeeds exactly when the VPC is still live
\* with the subnet_gen the caller read.
C5_DeleteVersusReplacement ==
    [][/\ \A u \in UpdateFwCalls :
            LET call == updateFw[u]
                v == call.vpc_id
            IN /\ (call.pc = "insert" /\ StepOfUpdate(u)) =>
                    /\ vpc[v].st # "live" =>
                         /\ updateFw'[u].pc = "done"
                         /\ updateFw'[u].res = "NotFound(Vpc)"
                         /\ fwrule' = fwrule
                    /\ updateFw'[u].res = "NotFound(Vpc)" => vpc[v].st # "live"
               /\ (call.pc = "commit" /\ call.given # << >>) =>
                    vpc[v].st = "live" /\ vpc'[v].st = "live"
       /\ \A d \in DeleteVpcCalls :
            LET call == deleteVpc[d]
                v == call.vpc_id
            IN /\ (call.pc = "check" /\ deleteVpc'[d] # call) =>
                    (deleteVpc'[d].pc = "done" <=> HasLiveSubnet(v))
               /\ (call.pc = "update" /\ deleteVpc'[d] # call) =>
                    /\ deleteVpc'[d].res = "Ok" <=>
                         (vpc[v].st = "live"
                            /\ vpc[v].subnet_gen = call.subnet_gen)
                    /\ deleteVpc'[d].res = "Ok" => vpc'[v].st = "deleted"]_vars

\* Of two replacements in flight when the delete was called, one committed
\* before the delete's update and succeeded, the other ran its insert after
\* it and got NotFound(Vpc).
C5_Witness ==
    \E u, w \in UpdateFwCalls, d \in DeleteVpcCalls :
        /\ {u, w} \subseteq deleteVpc[d].during
        /\ deleteVpc[d].res = "Ok"
        /\ updateFw[u].res = "NotFound(Vpc)"
        /\ updateFw[w].res = "Ok"
        /\ updateFw[w].given # << >>

\* C16: a replacement with a non-empty rule list whose insert finds the VPC
\* row soft-deleted (or absent) ends with NotFound(Vpc); none of its rules is
\* ever a row of the table, and the rule table, with the rules the
\* transaction had soft-deleted, and the VPC row are as they were before the
\* call's step.
C16_DeletedVpcRollsBack ==
    [][\A u \in UpdateFwCalls :
         LET call == updateFw[u]
             v == call.vpc_id
         IN /\ (/\ call.pc = "insert"
                /\ StepOfUpdate(u)
                /\ vpc[v].st # "live") =>
                  /\ call.given # << >>
                  /\ updateFw'[u].pc = "done"
                  /\ updateFw'[u].res = "NotFound(Vpc)"
                  /\ updateFw'[u].returned = << >>
                  /\ fwrule' = fwrule
                  /\ call.seen \cap LiveRulesOf(v) =
                        call.seen \cap LiveRulesOf(v)'
                  /\ vpc' = vpc
            /\ call.res = "NotFound(Vpc)" =>
                  \A i \in 1..MaxRules :
                      fwrule[<<u, i>>].st = "none"
                        /\ fwrule'[<<u, i>>].st = "none"
      ]_vars

\* A replacement with rules was refused with NotFound(Vpc) on a soft-deleted
\* VPC whose rule from before the call is still live.
C16_Witness ==
    \E u \in UpdateFwCalls :
        /\ updateFw[u].res = "NotFound(Vpc)"
        /\ updateFw[u].given # << >>
        /\ vpc[updateFw[u].vpc_id].st = "deleted"
        /\ \E i \in LiveRulesOf(updateFw[u].vpc_id) : i[1] = "x"
        /\ \A i \in 1..MaxRules : fwrule[<<u, i>>].st = "none"

\* The call d is applied with success on this step.
DeleteAllApplied(d) == deleteAllFw[d] = "" /\ deleteAllFw'[d] = "Ok"

\* C17: a vpc_delete_all_firewall_rules on a VPC leaves it without live
\* rules, its listing empty, and every rule of other VPCs as it was; applied
\* again to a VPC that has had no live rule since the first application, it
\* succeeds again and leaves the rule table exactly as the first application
\* left it.
C17_DeleteAllIdempotent ==
    [][\A d \in DeleteAllFwCalls :
         /\ DeleteAllApplied(d) =>
              /\ LiveRulesOf("e1")' = {}
              /\ vpc_list_firewall_rules("e1")' = << >>
              /\ \A i \in RuleIds :
                    IF fwrule[i].st = "live" /\ fwrule[i].vpc_id = "e1"
                      THEN fwrule'[i] = [fwrule[i] EXCEPT !.st = "deleted"]
                      ELSE fwrule'[i] = fwrule[i]
              /\ vpc' = vpc
         /\ (/\ deleteAllFw[d] = ""
             /\ deleteAllFw'[d] # ""
             /\ \E o \in DeleteAllFwCalls \ {d} : deleteAllFw[o] = "Ok"
             /\ LiveRulesOf("e1") = {}) =>
              /\ deleteAllFw'[d] \in {"Ok", "Forbidden"}
              /\ fwrule' = fwrule
         /\ (deleteAllFw[d] = "" /\ deleteAllFw'[d] = "Forbidden") =>
              fwrule' = fwrule
      ]_vars

\* Both calls were applied with success, the VPC had a live rule before the
\* first, and it has none now, while the other VPC has its rule.
C17_Witness ==
    /\ \A d \in DeleteAllFwCalls : deleteAllFw[d] = "Ok"
    /\ \E i \in RuleIds : fwrule[i].st = "deleted" /\ fwrule[i].vpc_id = "e1"
    /\ LiveRulesOf("e1") = {}
    /\ LiveRulesOf("e2") # {}
    /\ updateFw["u1"].pc = "idle"

\* The rule list of call u has two rules of the same name.
GivenDuplicates(u) ==
    \E i \in 1..Len(updateFw[u].given) :
        \E j \in (i + 1)..Len(updateFw[u].given) :
            updateFw[u].given[i] = updateFw[u].given[j]

\* C18: in every reachable state no two live rules of a VPC have the same
\* name; a replacement whose rule list has two rules of the same name never
\* succeeds, and no step of it changes the rule table or the VPC row.
C18_RuleNamesUnique ==
    /\ [](\A i, j \in RuleIds :
            (/\ i # j
             /\ fwrule[i].st = "live" /\ fwrule[j].st = "live"
             /\ fwrule[i].vpc_id = fwrule[j].vpc_id)
            => fwrule[i].name # fwrule[j].name)
    /\ [][\A u \in UpdateFwCalls :
            GivenDuplicates(u) =>
              /\ updateFw[u].res # "Ok"
              /\ StepOfUpdate(u) =>
                    /\ fwrule' = fwrule
                    /\ vpc' = vpc
                    /\ updateFw'[u].res \in
                          {"", "InternalError", "NotFound(Vpc)",
                           "ServiceUnavailable"}
                    /\ (/\ updateFw[u].pc = "insert"
                        /\ vpc[updateFw[u].vpc_id].st = "live"
                        /\ LiveRulesOf(updateFw[u].vpc_id)
                              = updateFw[u].seen)
                       => updateFw'[u].res = "InternalError"]_vars

\* A replacement with two rules named alike has failed on its insert; the
\* rule that was live before it is the VPC's only live rule, and none of the
\* call's rules is a row.
C18_Witness ==
    \E u \in UpdateFwCalls :
        /\ updateFw[u].given = <<"a", "a">>
        /\ updateFw[u].res = "InternalError"
        /\ fwrule[<<"x", 1>>].st = "live"
        /\ LiveRulesOf(updateFw[u].vpc_id) = {<<"x", 1>>}
        /\ \A i \in 1..MaxRules : fwrule[<<u, i>>].st = "none"

(***************************************************************************)
(* Claims about the resolver.                                              *)
(***************************************************************************)
\* Guest path: a live instance NIC on the VPC belongs to a live instance
\* whose active VMM is live and on sled s.
GuestPath(s, vpc_id) ==
    \E n \in InicIds :
        /\ inic[n].st = "live"
        /\ inic[n].vpc_id = vpc_id
        /\ LET i == inic[n].instance_id
           IN /\ instance[i].st = "live"
              /\ instance[i].active_propolis_id \in VmmIds
              /\ vmm[instance[i].active_propolis_id].st = "live"
              /\ vmm[instance[i].active_propolis_id].sled_id = s

\* The blueprints of the bp_target rows of greatest version.
CurrentTarget ==
    {t.blueprint_id : t \in {t \in bp_target :
                               ~\E o \in bp_target : o.version > t.version}}

\* Service path: a live service NIC on the VPC is that of a zone which the
\* current target blueprint places on sled s with a disposition that is in
\* service or quiesced.
ServicePath(s, vpc_id) ==
    \E n \in DOMAIN snic, z \in bp_omicron_zone :
        /\ snic[n].st = "live"
        /\ snic[n].vpc_id = vpc_id
        /\ z.id = snic[n].service_id
        /\ z.sled_id = s
        /\ z.blueprint_id \in CurrentTarget
        /\ z.disposition \in {"InService", "Quiesced"}

Eligible(s, allow) ==
    /\ sled[s].st = "live"
    /\ matches_policy_and_state("VpcFirewall", sled[s].policy, sled[s].state)
    /\ allow = {} \/ s \in allow

\* C6: a call of vpc_resolve_to_sleds(vpc_id, allow) returns each sled at
\* most once, and returns exactly the live sleds that match VpcFirewall, are
\* in a non-empty allow-list, and are reached by the guest path or by the
\* service path.
C6_ResolvesExactly ==
    [][resolved' # resolved =>
         LET r == resolved'
         IN /\ \A s \in DOMAIN r.result : r.result[s] = 1
            /\ DOMAIN r.result =
                 {s \in SledIds :
                    /\ Eligible(s, r.sleds_filter)
                    /\ GuestPath(s, r.vpc_id) \/ ServicePath(s, r.vpc_id)}]_vars

\* A call returned both sleds, one for a guest instance with two NICs on the
\* VPC, one for a service zone.
C6_Witness ==
    /\ resolved.vpc_id = "e1"
    /\ DOMAIN resolved.result = {"sA", "sB"}
    /\ GuestPath("sB", "e1") /\ ~ServicePath("sB", "e1")
    /\ ServicePath("sA", "e1") /\ ~GuestPath("sA", "e1")
    /\ \A n \in InicIds : inic[n].st = "live" /\ inic[n].vpc_id = "e1"

\* C7: a resolver call's service sleds come from the zones of the blueprint
\* whose bp_target row has the greatest version, and from all of them that
\* pass: a sled is returned for the service path exactly when a live service
\* NIC on the VPC is that of a deployable zone of that blueprint on the sled;
\* zones of earlier targets and of blueprints that are not the target add
\* nothing, and with no target there is no service sled.
C7_CurrentTargetOnly ==
    [][resolved' # resolved =>
         LET r == resolved'
             top == {t \in bp_target :
                       \A o \in bp_target : o.version <= t.version}
             zones == {z \in bp_omicron_zone :
                         \E t \in top : t.blueprint_id = z.blueprint_id}
         IN \A s \in SledIds :
              (Eligible(s, r.sleds_filter) /\ ~GuestPath(s, r.vpc_id)) =>
                (s \in DOMAIN r.result <=>
                   \E z \in zones, n \in SnicIds :
                       /\ z.sled_id = s
                       /\ z.disposition # "Expunged"
                       /\ snic[n].st = "live"
                       /\ snic[n].vpc_id = r.vpc_id
                       /\ snic[n].service_id = z.id)]_vars

\* After b1, which has zone z1 only, b2, which has zone z2 only, was made
\* the target; the NIC of z1 is still live, and a call returned the sled of
\* z2 and not that of z1.
C7_Witness ==
    /\ \E t \in bp_target : t.version = 1 /\ t.blueprint_id = "b1"
    /\ \E t \in bp_target : t.version = 2 /\ t.blueprint_id = "b2"
    /\ \E z \in bp_omicron_zone :
          z.blueprint_id = "b1" /\ z.id = "z1" /\ z.disposition = "InService"
    /\ ~\E z \in bp_omicron_zone : z.blueprint_id = "b2" /\ z.id = "z1"
    /\ ~\E z \in bp_omicron_zone : z.blueprint_id = "b1" /\ z.id = "z2"
    /\ snic["sn1"].st = "live"
    /\ resolved.vpc_id = "e1"
    /\ resolved.result = vpc_resolve_to_sleds("e1", resolved.sleds_filter)
    /\ "sA" \notin DOMAIN resolved.result
    /\ "sB" \in DOMAIN resolved.result

\* The resolver's result in the present state with the bp_target table
\* replaced by targets.
ResolveWith(targets, vpc_id, allow) ==
    Intersect(sleds(allow),
              Union(instance_query(vpc_id), service_query_on(targets, vpc_id)))

\* The bp_target tables that differ from the present one in enabled flags
\* only.
OtherFlags ==
    {{[t EXCEPT !.enabled = flags[t]] : t \in bp_target} :
        flags \in [bp_target -> BOOLEAN]}

\* C19: in every reachable state, whatever values the enabled flags of the
\* bp_target rows are replaced with, the service half of the resolver names
\* for every VPC the sleds it names in that state; and what a resolver call
\* returns is the result it would return under any such replacement.
C19_EnabledNotConsulted ==
    /\ [](\A other \in OtherFlags :
            \A vpc_id \in {"e1", "e2"} :
                service_query_on(other, vpc_id) = service_query(vpc_id))
    /\ [][resolved' # resolved =>
            \A other \in OtherFlags :
                resolved'.result =
                   ResolveWith(other, resolved'.vpc_id,
                               resolved'.sleds_filter)]_vars

\* The current target is not enabled, an earlier target was; a call returned
\* the sled of a zone of the current target.
C19_Witness ==
    /\ \E t \in bp_target : t.version = 1 /\ t.enabled
    /\ \E t \in bp_target :
          /\ t.version = 2 /\ ~t.enabled
          /\ \E z \in bp_omicron_zone :
                /\ z.blueprint_id = t.blueprint_id
                /\ z.id = "z2" /\ z.disposition = "InService"
          /\ ~\E z \in bp_omicron_zone :
                z.blueprint_id # t.blueprint_id /\ z.id = "z2"
    /\ resolved.vpc_id = "e1"
    /\ resolved.result = vpc_resolve_to_sleds("e1", resolved.sleds_filter)
    /\ "sB" \in DOMAIN resolved.result

\* C20: a resolver call returns an eligible sled that is not reached by the
\* guest path when the zones of the current target on that sled that have a
\* live service NIC on the VPC are all in service or quiesced (and there is
\* one), and does not return it when they are all expunged.
C20_QuiescedInExpungedOut ==
    [][resolved' # resolved =>
         LET r == resolved'
         IN \A s \in SledIds :
              LET zs == {z \in bp_omicron_zone :
                           /\ z.sled_id = s
                           /\ z.blueprint_id \in CurrentTarget
                           /\ \E n \in SnicIds :
                                 /\ snic[n].st = "live"
                                 /\ snic[n].vpc_id = r.vpc_id
                                 /\ snic[n].service_id = z.id}
              IN (/\ Eligible(s, r.sleds_filter)
                  /\ ~GuestPath(s, r.vpc_id)
                  /\ zs # {}) =>
                   /\ (\A z \in zs :
                          z.disposition \in {"InService", "Quiesced"})
                        => s \in DOMAIN r.result
                   /\ (\A z \in zs : z.disposition = "Expunged")
                        => s \notin DOMAIN r.result]_vars

\* The current target has a quiesced zone on one sled and an expunged zone
\* on the other, both with a live service NIC on the VPC; a call returned the
\* first sled and not the second.
C20_Witness ==
    /\ \E z \in bp_omicron_zone :
          /\ z.blueprint_id \in CurrentTarget
          /\ z.id = "z1" /\ z.sled_id = "sA" /\ z.disposition = "Quiesced"
    /\ \E z \in bp_omicron_zone :
          /\ z.blueprint_id \in CurrentTarget
          /\ z.id = "z2" /\ z.sled_id = "sB" /\ z.disposition = "Expunged"
    /\ \A n \in SnicIds : snic[n].st = "live" /\ snic[n].vpc_id = "e1"
    /\ resolved.vpc_id = "e1"
    /\ resolved.sleds_filter = {}
    /\ resolved.result = vpc_resolve_to_sleds("e1", {})
    /\ DOMAIN resolved.result = {"sA"}

(***************************************************************************)
(* Claims about the sled filter in the resolver, checked under SpecSleds.  *)
(***************************************************************************)
\* Sled 1 is expunged, sled 2 decommissioned, sled 4 non-provisionable and
\* active, sleds 3 and 5 as they were.
ThreeMarked ==
    /\ sled["s1"].policy = "Expunged"
    /\ sled["s2"].state = "Decommissioned"
    /\ sled["s4"] = [EligibleSled EXCEPT
                        !.policy = "InServiceNonProvisionable"]
    /\ sled["s3"] = EligibleSled
    /\ sled["s5"] = EligibleSled

\* C21 as stated: with sled 1 expunged, sled 2 decommissioned and sled 4
\* non-provisionable, a resolver call for the VPC returns exactly sleds 3
\* and 5.
C21_ThreeAndFive ==
    [][(resolved' # resolved /\ resolved'.vpc_id = "e1" /\ ThreeMarked) =>
          DOMAIN resolved'.result = {"s3", "s5"}]_vars

\* C21: with sled 1 expunged, sled 2 decommissioned and sled 4
\* non-provisionable, a resolver call for the VPC returns exactly sleds 3,
\* 4 and 5: the non-provisionable sled is still sent firewall rules.
C21_ThreeFourFive ==
    [][(resolved' # resolved /\ resolved'.vpc_id = "e1" /\ ThreeMarked) =>
          DOMAIN resolved'.result = {"s3", "s4", "s5"}]_vars

\* The three sleds are marked and the last call returned sleds 3, 4 and 5.
C21_Witness ==
    /\ ThreeMarked
    /\ resolved.vpc_id = "e1"
    /\ resolved.result = vpc_resolve_to_sleds("e1", {})
    /\ DOMAIN resolved.result = {"s3", "s4", "s5"}

\* In service (provisionable or not) and active.
InServiceActive(s) ==
    /\ sled[s].policy \in {"InServiceProvisionable",
                           "InServiceNonProvisionable"}
    /\ sled[s].state = "Active"

\* C22: a resolver call returns a sled reached by the guest or the service
\* path exactly when the sled's policy is in service and its state is
\* active; and a write that makes such a sled in service and active again
\* puts it back into the resolver's result.
C22_InServiceAndActive ==
    /\ [][resolved' # resolved =>
            \A s \in DOMAIN sled :
               (GuestPath(s, resolved'.vpc_id)
                  \/ ServicePath(s, resolved'.vpc_id)) =>
                 (s \in DOMAIN resolved'.result <=> InServiceActive(s))]_vars
    /\ [][\A s \in DOMAIN sled :
            (/\ ~InServiceActive(s)
             /\ InServiceActive(s)'
             /\ ServicePath(s, "e1")) =>
               /\ s \notin DOMAIN vpc_resolve_to_sleds("e1", {})
               /\ s \in DOMAIN vpc_resolve_to_sleds("e1", {})']_vars

\* Sled 1 is expunged and active, sled 2 expunged and decommissioned, sled 3
\* in service and decommissioned, sled 4 non-provisionable and active; the
\* last call returned sleds 4 and 5.
C22_Witness ==
    /\ sled["s1"] = [EligibleSled EXCEPT !.policy = "Expunged"]
    /\ sled["s2"] = [EligibleSled EXCEPT !.policy = "Expunged",
                                         !.state = "Decommissioned"]
    /\ sled["s3"] = [EligibleSled EXCEPT !.state = "Decommissioned"]
    /\ sled["s4"] = [EligibleSled EXCEPT
                        !.policy = "InServiceNonProvisionable"]
    /\ resolved.vpc_id = "e1"
    /\ resolved.result = vpc_resolve_to_sleds("e1", {})
    /\ DOMAIN resolved.result = {"s4", "s5"}

(***************************************************************************)
(* Claims about the filter algebra, checked under SpecPlanning.            *)
(***************************************************************************)
\* The policy table and the state table of the specification: the pairs
\* marked as matching.
PolicyTable ==
    ({"InServiceProvisionable"} \X
        {"Commissioned", "Discretionary", "InService",
         "QueryDuringInventory", "ReservationCreate", "VpcFirewall"})
    \cup ({"InServiceNonProvisionable"} \X
        {"Commissioned", "InService", "QueryDuringInventory", "VpcFirewall"})
    \cup ({"Expunged"} \X {"Commissioned", "Decommissioned"})

StateTable ==
    ({"Active"} \X
        {"Commissioned", "Discretionary", "InService",
         "QueryDuringInventory", "ReservationCreate", "VpcFirewall"})
    \cup ({"Decommissioned"} \X {"Decommissioned"})

\* C23: for every policy, state and filter, policy.matches(filter) returns
\* the policy table's entry and state.matches(filter) the state table's.
C23_TruthTable ==
    planned.op = "matches" =>
        /\ planned.result.policy
              = (<<planned.policy, planned.filter>> \in PolicyTable)
        /\ planned.result.state
              = (<<planned.state, planned.filter>> \in StateTable)

\* A non-provisionable policy and a decommissioned state were matched
\* against VpcFirewall: the policy matches, the state does not.
C23_Witness ==
    /\ planned.op = "matches"
    /\ planned.policy = "InServiceNonProvisionable"
    /\ planned.state = "Decommissioned"
    /\ planned.filter = "VpcFirewall"
    /\ planned.result.policy
    /\ ~planned.result.state

\* C24: filter.matches_policy_and_state(p, s) is the conjunction of
\* p.matches(filter) and s.matches(filter), which is membership of p and s
\* in the two all_matching sets; and all_sleds(filter) returns exactly the
\* sleds of the planning input that the query form of the filter (policy
\* among the matching policies and state among the matching states) selects.
C24_ProductLaw ==
    /\ [](planned.op = "matches" =>
            /\ planned.result.both
                  = (planned.result.policy /\ planned.result.state)
            /\ planned.result.both
                  = (/\ planned.policy
                          \in SledPolicy_all_matching(planned.filter)
                     /\ planned.state
                          \in SledState_all_matching(planned.filter)))
    /\ [][(planned' # planned /\ planned'.op = "all_sleds") =>
            planned'.result =
               {<<i, planning_input.sleds[i]>> : i \in
                  {j \in DOMAIN planning_input.sleds :
                     sled_filter(planning_input.sleds[j],
                                 planned'.filter)}}]_vars

\* Both sleds are expunged, the first decommissioned and the second active;
\* all_sleds(Decommissioned) returned the first only.
C24_Witness ==
    /\ DOMAIN planning_input.sleds = {"sA", "sB"}
    /\ planning_input.sleds["sA"].policy = "Expunged"
    /\ planning_input.sleds["sA"].state = "Decommissioned"
    /\ planning_input.sleds["sB"].policy = "Expunged"
    /\ planning_input.sleds["sB"].state = "Active"
    /\ planned.op = "all_sleds"
    /\ planned.filter = "Decommissioned"
    /\ planned.result = {<<"sA", planning_input.sleds["sA"]>>}

\* The zpools of the sled the last call was about.
PlannedZpools == planning_input.sleds[planned.sled_id].resources.zpools

InServiceActiveDisk(disk) ==
    disk.policy = "InService" /\ disk.state = "Active"

\* C25: zpool_is_provisionable(z) is true exactly when z is a zpool of the
\* sled whose disk is in service and active; all_zpools and all_disks return
\* every zpool of the sled under All, and under InService those whose disk
\* is in service and active.
C25_DiskFilters ==
    /\ planned.op = "zpool_is_provisionable" =>
          planned.result =
             (/\ planned.zpool \in DOMAIN PlannedZpools
              /\ InServiceActiveDisk(PlannedZpools[planned.zpool]))
    /\ planned.op = "all_zpools" =>
          planned.result =
             {z \in DOMAIN PlannedZpools :
                \/ planned.filter = "All"
                \/ InServiceActiveDisk(PlannedZpools[z])}
    /\ planned.op = "all_disks" =>
          {d[1] : d \in planned.result} =
             {z \in DOMAIN PlannedZpools :
                \/ planned.filter = "All"
                \/ InServiceActiveDisk(PlannedZpools[z])}

\* The sled has zp1 on a disk in service but decommissioned and zp2 on a
\* disk in service and active; zpool_is_provisionable(zp1) returned false.
C25_Witness ==
    /\ planned.op = "zpool_is_provisionable"
    /\ planned.sled_id = "sA"
    /\ planned.zpool = "zp1"
    /\ DOMAIN PlannedZpools = {"zp1", "zp2"}
    /\ PlannedZpools["zp1"] = [policy |-> "InService",
                               state |-> "Decommissioned"]
    /\ planned.result = FALSE

(***************************************************************************)
(* Claims about authorization and routers, checked under SpecRouter.       *)
(***************************************************************************)
\* C26: a call by a caller who fails the authorization check returns
\* Forbidden and leaves the router and route tables as they were, and every
\* resolver call that returns the sleds of a VPC was made by a caller who
\* passes the check.
C26_AuthorizeFirst ==
    [][/\ (called' # called /\ ~called'.authorized) =>
             /\ called'.result = "Forbidden"
             /\ router' = router /\ route' = route
       /\ resolved' # resolved => resolved'.authorized]_vars

\* C27: each live VPC has exactly one live System router, and it is the
\* router the VPC's system_router_id names.
C27_SystemRouterSingleton ==
    \A v \in LiveVpcs :
        {r \in LiveRoutersOf(v) : router[r].kind = "System"}
          = {system_router_id(v)}


(***************************************************************************)
(* Claims about soft deletion, checked under SpecSoftDelete.               *)
(***************************************************************************)
\* A soft-deleted row of each table is the same row after the step.
DeletedRowsKept ==
    /\ \A i \in VpcIds : vpc[i].st = "deleted" => vpc'[i] = vpc[i]
    /\ \A i \in SubnetIds : subnet[i].st = "deleted" => subnet'[i] = subnet[i]
    /\ \A i \in RouterIds : router[i].st = "deleted" => router'[i] = router[i]
    /\ \A i \in RouteIds : route[i].st = "deleted" => route'[i] = route[i]
    /\ \A i \in RuleIds : fwrule[i].st = "deleted" => fwrule'[i] = fwrule[i]

\* The state of the row an update call names, before the call.
UpdatedRowSt(c) ==
    CASE c.op = "project_update_vpc" -> vpc[c.id].st
      [] c.op = "vpc_update_subnet" -> subnet[c.id].st
      [] c.op = "vpc_update_router" -> router[c.id].st
      [] c.op = "router_update_route" -> route[c.id].st
      [] OTHER -> ""

\* The rows a list call returned are live rows of its table.
ListedRowsLive(c) ==
    CASE c.op = "vpc_list" -> \A i \in c.rows : vpc[i].st = "live"
      [] c.op = "vpc_subnet_list" -> \A i \in c.rows : subnet[i].st = "live"
      [] c.op = "vpc_router_list" -> \A i \in c.rows : router[i].st = "live"
      [] c.op = "vpc_router_route_list" ->
           \A i \in c.rows : route[i].st = "live"
      [] c.op = "vpc_list_firewall_rules" ->
           \A i \in c.rows : fwrule[i].st = "live"
      [] OTHER -> TRUE

\* C28: a soft-deleted VPC, subnet, router, route or firewall rule row is
\* never live again and never changes; an update call on a soft-deleted row
\* returns the not-found error and changes no row; a list call returns live
\* rows only.
C28_SoftDeletePermanent ==
    [][/\ DeletedRowsKept
       /\ (called' # called /\ UpdatedRowSt(called') = "deleted") =>
              /\ called'.result = "ObjectNotFound"
              /\ UNCHANGED <<vpc, subnet, router, route, fwrule>>
       /\ called' # called => ListedRowsLive(called')]_vars

\* An update call was answered with the not-found error for a soft-deleted
\* row of each of the four tables in turn; here the route, after the VPC,
\* its subnet and its router were deleted.
C28_Witness ==
    /\ called.op = "router_update_route"
    /\ called.result = "ObjectNotFound"
    /\ route[called.id].st = "deleted"
    /\ vpc["e1"].st = "deleted"
    /\ subnet["x1"].st = "deleted"
    /\ router["r1"].st = "deleted"
    /\ fwrule[<<"x", 1>>].st = "deleted"


(***************************************************************************)
(* Claims about vpc_delete_subnet, checked under SpecStale.                *)
(***************************************************************************)
\* C29: a vpc_delete_subnet call whose query finds a live network interface
\* in the subnet returns InvalidRequest (network interfaces exist) and
\* leaves the subnet row as it is; a call goes on to its update only when
\* the query found none; a call returns success only from an update made
\* while the subnet was live with rcgen equal to the snapshot's and held no
\* live network interface, and that update soft-deletes the subnet.
C29_DeleteSubnetNeedsNoNics ==
    [][\A d \in DeleteSubnetCalls :
         LET call == deleteSubnet[d]
             s == call.subnet_id
         IN /\ (/\ call.pc = "check" /\ call.authorized
                 /\ deleteSubnet'[d] # call /\ HasLiveNic(s)) =>
                   /\ deleteSubnet'[d].pc = "done"
                   /\ deleteSubnet'[d].res
                        = "InvalidRequest(network interfaces exist)"
                   /\ subnet' = subnet
            /\ (call.pc = "check" /\ deleteSubnet'[d].pc = "update") =>
                   ~HasLiveNic(s)
            /\ (call.res # "Ok" /\ deleteSubnet'[d].res = "Ok") =>
                   /\ call.pc = "update"
                   /\ subnet[s].st = "live"
                   /\ subnet[s].rcgen = call.rcgen
                   /\ ~HasLiveNic(s)
                   /\ subnet'[s].st = "deleted"]_vars

\* A call was refused for the live network interface of the subnet, after a
\* first interface of the subnet was deleted; the subnet is live.
C29_Witness ==
    \E d \in DeleteSubnetCalls :
        /\ deleteSubnet[d].res = "InvalidRequest(network interfaces exist)"
        /\ subnet[deleteSubnet[d].subnet_id].st = "live"
        /\ inic["n1"].st = "deleted"
        /\ inic["n2"].st = "live"
        /\ inic["n2"].subnet_id = deleteSubnet[d].subnet_id


(***************************************************************************)
(* Claims about the generation columns of a VPC row, checked under SpecFw. *)
(***************************************************************************)
\* C30: no step decreases the subnet_gen or the firewall_gen of a VPC row,
\* and the step by which a vpc_update_firewall_rules call with a non-empty
\* rule list returns success increases the firewall_gen of its VPC.
C30_GenerationsMonotone ==
    [][/\ \A v \in VpcIds :
            /\ vpc'[v].subnet_gen >= vpc[v].subnet_gen
            /\ vpc'[v].firewall_gen >= vpc[v].firewall_gen
       /\ \A u \in UpdateFwCalls :
            (/\ updateFw[u].res # "Ok" /\ updateFw'[u].res = "Ok"
             /\ updateFw'[u].given # << >>) =>
               vpc'[updateFw'[u].vpc_id].firewall_gen
                 > vpc[updateFw'[u].vpc_id].firewall_gen]_vars

\* Two calls with non-empty rule lists have returned success on the same
\* VPC, whose firewall_gen is two more than at the start.
C30_Witness ==
    /\ \A u \in UpdateFwCalls :
          /\ updateFw[u].res = "Ok"
          /\ updateFw[u].given # << >>
          /\ updateFw[u].vpc_id = "e1"
    /\ vpc["e1"].firewall_gen = 2

(***************************************************************************)
(* Claims about the child-generation columns, checked under SpecFw.        *)
(***************************************************************************)
\* C31: a step that changes the set of live subnets of a VPC changes the
\* subnet_gen of the VPC row, and a step that changes the set of live
\* firewall rules of a VPC (a replacement, also by the empty list, or the
\* deletion of all rules) changes its firewall_gen.
C31_ChildChangeBumpsGeneration ==
    [][\A v \in VpcIds :
         /\ LiveSubnetsOf(v)' # LiveSubnetsOf(v) =>
               vpc'[v].subnet_gen # vpc[v].subnet_gen
         /\ LiveRulesOf(v)' # LiveRulesOf(v) =>
               vpc'[v].firewall_gen # vpc[v].firewall_gen]_vars

(***************************************************************************)
(* SpecHttp: GET routes are registered in a new HttpRouter and GET and PUT *)
(* requests are looked up.                                                 *)
(***************************************************************************)
InitHttp == TwoVpcs /\ NoResolve

NextHttp ==
    \/ \E path \in InsertPaths, handler \in Handlers :
          Insert("GET", path, handler)
    \/ \E method \in Methods, path \in LookupPaths :
          LookupRoute(method, path)

SpecHttp == InitHttp /\ [][NextHttp]_vars

(***************************************************************************)
(* Claims about the HttpRouter, checked under SpecHttp.                    *)
(***************************************************************************)
\* The path with every run of '/' replaced by one '/'.
RECURSIVE CollapseSlashes(_)
CollapseSlashes(p) ==
    IF Len(p) < 2 THEN p
    ELSE IF p[1] = "/" /\ p[2] = "/" THEN CollapseSlashes(Tail(p))
    ELSE <<p[1]>> \o CollapseSlashes(Tail(p))

\* C32: path segments are separated by one or more '/': the lookup of a
\* path returns what the lookup of the path with its runs of '/' collapsed
\* returns; with a handler registered for /f/b, the lookup of /f//b returns
\* that handler and no variables.
C32_SlashRunsSeparate ==
    [][lookup' # lookup =>
         lookup'.out = lookup_route(httpRouter, lookup'.method,
                                    CollapseSlashes(lookup'.path))]_vars

(***************************************************************************)
(* Claims about the collection insert of routes, checked under SpecRouter. *)
(***************************************************************************)
\* C33: a route becomes live only in a step in which its router is live and
\* stays live, and that step adds one to the router's rcgen; a permitted
\* router_create_route call under a router that is absent or soft-deleted
\* returns the not-found error and changes neither table.
C33_RouteInsertChecksParent ==
    [][/\ \A t \in RouteIds :
            (route[t].st # "live" /\ route'[t].st = "live") =>
               LET r == route'[t].vpc_router_id
               IN /\ router[r].st = "live"
                  /\ router'[r] = [router[r] EXCEPT !.rcgen = @ + 1]
       /\ (/\ called' # called
           /\ called'.op = "router_create_route"
           /\ called'.authorized
           /\ router[called'.id].st # "live") =>
              /\ called'.result = "ObjectNotFound"
              /\ UNCHANGED <<router, route>>]_vars

\* A create call under the soft-deleted system router was answered with the
\* not-found error; the route created under it while it was live is live.
C33_Witness ==
    /\ called.op = "router_create_route"
    /\ called.authorized
    /\ called.result = "ObjectNotFound"
    /\ router[called.id].st = "deleted"
    /\ router[called.id].rcgen = 2
    /\ \E t \in RouteIds \ {"t1"} :
          route[t].st = "live" /\ route[t].vpc_router_id = called.id

(***************************************************************************)
(* Claims about the reruns of the firewall replacement, checked under      *)
(* SpecFw.                                                                 *)
(***************************************************************************)
\* C34: an attempt of vpc_update_firewall_rules that is aborted and rerun
\* leaves the rule table and the VPC row as they were; the attempt that
\* commits, after any number of aborted ones, soft-deletes the rules that
\* were live, makes each given rule a live row once and adds one to
\* firewall_gen, as a single run does; the insert that finds the VPC row
\* gone ends the call with NotFound(Vpc) without a rerun.
C34_RerunIsSafe ==
    [][\A u \in UpdateFwCalls :
         LET call == updateFw[u]
             after == updateFw'[u]
             v == call.vpc_id
             given == {<<u, i>> : i \in DOMAIN call.given}
         IN /\ after.retries > call.retries =>
                  /\ after.pc = "delete_old"
                  /\ fwrule' = fwrule
                  /\ vpc' = vpc
            /\ (call.res # "Ok" /\ after.res = "Ok") =>
                  /\ LiveRulesOf(v)' = given
                  /\ \A i \in given :
                        fwrule[i].st = "none"
                          /\ fwrule'[i].name = call.given[i[2]]
                  /\ \A i \in LiveRulesOf(v) : fwrule'[i].st = "deleted"
                  /\ \A i \in RuleIds \ (given \cup LiveRulesOf(v)) :
                        fwrule'[i] = fwrule[i]
                  /\ vpc'[v].firewall_gen
                       = vpc[v].firewall_gen
                           + (IF call.given = << >> THEN 0 ELSE 1)
            /\ (call.res # "NotFound(Vpc)" /\ after.res = "NotFound(Vpc)") =>
                  /\ after.pc = "done"
                  /\ after.retries = call.retries
                  /\ fwrule' = fwrule
                  /\ vpc' = vpc]_vars

\* A replacement with two rules has committed on its second attempt: its
\* rules are the live rules of the VPC and firewall_gen was bumped by the
\* other call's commit and by this one, not by the aborted attempt.
C34_Witness ==
    \E u \in UpdateFwCalls :
        /\ updateFw[u].res = "Ok"
        /\ updateFw[u].retries = 1
        /\ Len(updateFw[u].given) = 2
        /\ LiveRulesOf("e1") = {<<u, 1>>, <<u, 2>>}
        /\ vpc["e1"].firewall_gen = 2

(***************************************************************************)
(* Claims about illegal policy and state pairs, checked under SpecPlanning.*)
(***************************************************************************)
\* C35: for the policy and state of every matches call, a sled whose policy
\* is in service and whose state is Decommissioned matches no sled filter,
\* and no policy and state match both Commissioned and Decommissioned; the
\* call's answer is the conjunction of the policy's and the state's.
C35_IllegalPairsGuarded ==
    planned.op = "matches" =>
        /\ planned.result.both
             = (planned.result.policy /\ planned.result.state)
        /\ (/\ planned.policy \in {"InServiceProvisionable",
                                   "InServiceNonProvisionable"}
            /\ planned.state = "Decommissioned") =>
              /\ ~planned.result.both
              /\ \A filter \in SledFilters :
                    ~matches_policy_and_state(filter, planned.policy,
                                              planned.state)
        /\ ~(/\ matches_policy_and_state("Commissioned", planned.policy,
                                         planned.state)
             /\ matches_policy_and_state("Decommissioned", planned.policy,
                                         planned.state))

\* The call for a provisionable sled in service that is Decommissioned, with
\* the Commissioned filter: the policy matches, the state does not.
C35_Witness ==
    /\ planned.op = "matches"
    /\ planned.policy = "InServiceProvisionable"
    /\ planned.state = "Decommissioned"
    /\ planned.filter = "Commissioned"
    /\ planned.result.policy
    /\ ~planned.result.state
    /\ ~planned.result.both

(***************************************************************************)
(* Claims about children of deleted parents, checked under SpecSubnet.     *)
(***************************************************************************)
\* C36: a step that makes a subnet, a router or a firewall rule live finds
\* the row of its VPC live, and a step that makes a route live finds the row
\* of its router live.
C36_NoChildUnderDeletedParent ==
    [][/\ \A i \in SubnetIds :
            (subnet[i].st # "live" /\ subnet'[i].st = "live") =>
               vpc[subnet'[i].vpc_id].st = "live"
       /\ \A i \in RouterIds :
            (router[i].st # "live" /\ router'[i].st = "live") =>
               vpc[router'[i].vpc_id].st = "live"
       /\ \A i \in RuleIds :
            (fwrule[i].st # "live" /\ fwrule'[i].st = "live") =>
               vpc[fwrule'[i].vpc_id].st = "live"
       /\ \A i \in RouteIds :
            (route[i].st # "live" /\ route'[i].st = "live") =>
               router[route'[i].vpc_router_id].st = "live"]_vars

(***************************************************************************)
(* Claims about the replacement by the empty list, checked under SpecGone. *)
(***************************************************************************)
\* C37: vpc_update_firewall_rules with the empty list never ends with
\* NotFound(Vpc); the step on which it returns success leaves the VPC
\* without live rules, returns the empty list and leaves the VPC row, its
\* firewall_gen included, as it was, whether that row is live or not.
C37_EmptyListSkipsParentCheck ==
    [][\A u \in UpdateFwCalls :
         LET call == updateFw[u]
             after == updateFw'[u]
         IN after.given = << >> =>
              /\ after.res # "NotFound(Vpc)"
              /\ after.pc # "insert"
              /\ (call.res # "Ok" /\ after.res = "Ok") =>
                    /\ LiveRulesOf(call.vpc_id)' = {}
                    /\ \A i \in LiveRulesOf(call.vpc_id) :
                          fwrule'[i].st = "deleted"
                    /\ after.returned = << >>
                    /\ vpc' = vpc]_vars

\* A replacement by the empty list has returned success on the soft-deleted
\* VPC; the rule that was live is deleted, by this call, and firewall_gen is
\* what it was.
C37_Witness ==
    /\ updateFw["u1"].res = "Ok"
    /\ updateFw["u1"].given = << >>
    /\ updateFw["u1"].returned = << >>
    /\ vpc["e1"].st = "deleted"
    /\ vpc["e1"].firewall_gen = 0
    /\ fwrule[<<"x", 1>>].st = "deleted"
    /\ deleteAllFw["da1"] = ""

(***************************************************************************)
(* Claims about the frame of project_delete_vpc, checked under             *)
(* SpecSoftDelete.                                                         *)
(***************************************************************************)
\* C38: the step on which project_delete_vpc returns success soft-deletes
\* the VPC row and changes nothing else: the other columns of the row, its
\* generations included, every other VPC row and the subnet, firewall rule,
\* router and route tables are as they were.
C38_DeleteVpcFrame ==
    [][\A d \in DeleteVpcCalls :
         (deleteVpc[d].res # "Ok" /\ deleteVpc'[d].res = "Ok") =>
            /\ vpc[deleteVpc[d].vpc_id].st = "live"
            /\ vpc' = [vpc EXCEPT ![deleteVpc[d].vpc_id].st = "deleted"]
            /\ UNCHANGED <<subnet, fwrule, router, route>>]_vars

\* The VPC was deleted with success; its firewall rule, its system router
\* and the router's route are live.
C38_Witness ==
    /\ \E d \in DeleteVpcCalls :
          deleteVpc[d].res = "Ok" /\ deleteVpc[d].vpc_id = "e1"
    /\ vpc["e1"].st = "deleted"
    /\ LiveRulesOf("e1") = {<<"x", 1>>}
    /\ LiveRoutersOf("e1") = {system_router_id("e1")}
    /\ LiveRoutesOf(system_router_id("e1")) = {"t1"}

\* ---------------------------------------------------------------------------
\* Claims about deleting what is already deleted, checked under SpecGone
\* ---------------------------------------------------------------------------

\* C39: project_delete_vpc on a VPC that is already soft-deleted and has no
\* live subnet matches no row: it returns InvalidRequest("deletion failed
\* due to concurrent modification"), not a not-found error, and the row keeps
\* what it had.  vpc_delete_router and router_delete_route on a target that
\* is already deleted return success, and the row keeps its time_deleted.
C39_DeleteOfDeleted ==
    [][/\ \A d \in DeleteVpcCalls :
             (/\ deleteVpc[d].pc = "update"
              /\ deleteVpc'[d].pc = "done"
              /\ vpc[deleteVpc[d].vpc_id].st = "deleted")
                => /\ deleteVpc'[d].res
                         = "InvalidRequest(concurrent modification)"
                   /\ vpc' = vpc
       /\ \A r \in RouterIds :
             router[r].time_deleted # 0
                => /\ router'[r] = router[r]
                   /\ (called'.op = "vpc_delete_router" /\ called'.id = r
                       /\ called'.authorized)
                         => called'.result = "Ok"
       /\ \A t \in RouteIds :
             route[t].time_deleted # 0
                => /\ route'[t] = route[t]
                   /\ (called'.op = "router_delete_route" /\ called'.id = t
                       /\ called'.authorized)
                         => called'.result = "Ok"]_vars

\* Every row is deleted from the start: the VPC delete has failed on zero
\* rows and the last route delete has succeeded on a row it did not change.
C39_Witness ==
    /\ \E d \in DeleteVpcCalls :
          /\ deleteVpc[d].vpc_id = "e1"
          /\ deleteVpc[d].res = "InvalidRequest(concurrent modification)"
    /\ vpc["e1"].st = "deleted"
    /\ called.op = "router_delete_route"
    /\ called.id = "t1"
    /\ called.result = "Ok"
    /\ route["t1"].time_deleted = 1
    /\ router[system_router_id("e1")].time_deleted = 1

\* ---------------------------------------------------------------------------
\* Claims about running load_builtin_vpcs again, checked under SpecLoad
\* ---------------------------------------------------------------------------

\* The call began on a database where an earlier run had completed.
Reloaded ==
    /\ load.authorized
    /\ load.before.vpc.st = "live"
    /\ load.before.router.st = "live"
    /\ load.before.route.st = "live"
    /\ \A k \in DOMAIN BuiltinSubnetIds : load.before.subnets[k].st = "live"

\* C40: load_builtin_vpcs run where it has completed before succeeds and
\* leaves the services VPC, the system router, the default route and the
\* built-in subnets the live rows they were (the VPC up to the generation of
\* its rules); every rule that was live in the services VPC is live after,
\* with its name and what it said, also under a built-in name, and both
\* built-in names are live.
C40_ReloadKeeps ==
    (load.pc = "done" /\ Reloaded) =>
        /\ load.res = "Ok"
        /\ [vpc[SERVICES_VPC_ID] EXCEPT
               !.firewall_gen = load.before.vpc.firewall_gen]
              = load.before.vpc
        /\ router[ServicesRouterId] = load.before.router
        /\ route[SERVICES_VPC_DEFAULT_ROUTE_ID] = load.before.route
        /\ \A k \in DOMAIN BuiltinSubnetIds :
              subnet[BuiltinSubnetIds[k]] = load.before.subnets[k]
        /\ load.before.rules \subseteq ServicesRules
        /\ BuiltinRuleNames \subseteq {r.name : r \in ServicesRules}

\* A second run has ended on a services VPC whose rules were a caller's rule
\* under a built-in name and a rule under another name: both are live as
\* they were, next to the built-in rule of the other name.
C40_Witness ==
    /\ load.pc = "done"
    /\ load.res = "Ok"
    /\ Reloaded
    /\ load.before.rules = {[name |-> DNS_VPC_FW_RULE, body |-> "user"],
                            [name |-> "a", body |-> "user"]}
    /\ ServicesRules = load.before.rules \cup
                          {[name |-> NEXUS_VPC_FW_RULE, body |-> "builtin"]}
    /\ LiveRulesOf(SERVICES_VPC_ID) = {<<LoadFwCall, 1>>, <<LoadFwCall, 2>>,
                                       <<LoadFwCall, 3>>}

====
